---------------------------- MODULE Spec2Model ----------------------------
(***************************************************************************)
(* Station control plane of the memphis broker: the SDK (wire) handlers    *)
(* createStationDirect, removeStationDirect, useSchemaDirect and           *)
(* removeSchemaFromStationDirect and the HTTP handler                      *)
(* StationsHandler.CreateStation, run as concurrent tasks against the      *)
(* metadata store (stations, producers, consumers, tags, audit logs) and   *)
(* the stream engine.                                                      *)
(*                                                                         *)
(* Every store call, engine call and publish of a handler is a suspension  *)
(* point: a handler is a chain of steps (its pc) and the steps of the      *)
(* tasks in flight interleave freely.  A reply and an audit-log write are  *)
(* taken in the same step as the store call they follow: nothing else      *)
(* reads them.  The analytics sink and the server log are not modelled.    *)
(***************************************************************************)
EXTENDS Integers, Sequences, FiniteSets, TLC

(***************************************************************************)
(* Bounds of the model.                                                    *)
(***************************************************************************)
NumSlots == 2
MaxRequests == 4
MaxFaults == 1
MaxProducers == 1
MaxConsumers == 1

Slots == 1..NumSlots

(***************************************************************************)
(* Go's nil error, and the errors of the collaborators.                    *)
(***************************************************************************)
NoErr == "<nil>"
StoreErr == "store failure"
EngineErr == "engine failure"
JsonErr == "unexpected end of JSON input"
NameErr == "station name has to include only letters, numbers, _ , -"

(***************************************************************************)
(* Names.  strings.ToLower over the names the requests use.                *)
(***************************************************************************)
RawNames == {"a", "A", "?"}

ToLower(s) ==
    CASE s = "A" -> "a"
      [] s = "S1" -> "s1"
      [] s = "Bytes" -> "bytes"
      [] s = "P1" -> "p1"
      [] OTHER -> s

validateName(extern) ==
    IF extern \in {"a"} THEN NoErr ELSE NameErr

replaceDelimiters(name) == name

StationNameFromStr(name) ==
    LET extern == ToLower(name)
        err == validateName(extern)
    IN IF err # NoErr
       THEN [err |-> err, internal |-> "", external |-> ""]
       ELSE [err |-> NoErr,
             internal |-> ToLower(replaceDelimiters(name)),
             external |-> extern]

MainStream(intern) == <<"main", intern>>
DlsStream(intern) == <<"dls", intern>>

(***************************************************************************)
(* The schemas collection: s1 with active version 3, s2 with version 5.    *)
(***************************************************************************)
SchemaNames == {"s1", "s2"}
ActiveVersion(schemaName) == IF schemaName = "s2" THEN 5 ELSE 3
EmptySchema == [name |-> "", version |-> 0]

validateRetentionType(retentionType) ==
    IF retentionType # "message_age_sec" /\ retentionType # "messages"
       /\ retentionType # "bytes"
    THEN "retention type can be one of the following message_age_sec/messages/bytes"
    ELSE NoErr

validateStorageType(storageType) ==
    IF storageType # "file" /\ storageType # "memory"
    THEN "storage type can be one of the following file/memory"
    ELSE NoErr

(* Lines 93-99 with the limit one higher. *)
validateReplicasSix(replicas) ==
    IF replicas > 6 THEN "max replicas in a cluster is 5" ELSE NoErr

validateReplicas(replicas) ==
    IF replicas > 5 THEN "max replicas in a cluster is 5" ELSE NoErr

(***************************************************************************)
(* Request payloads.  One record shape serves every request: station_name  *)
(* is createStationRequest.name, destroyStationRequest.station_name,       *)
(* attachSchemaRequest.station_name and detachSchemaRequest.station_name;  *)
(* schema_name is createStationRequest.schema_name and                     *)
(* attachSchemaRequest.name.  decodes = FALSE is a payload json.Unmarshal  *)
(* rejects.  tags and actor are read by the HTTP handler only.             *)
(***************************************************************************)
Payload(decodes, station, schema, rtype, rvalue, storage, replicas, idem) ==
    [decodes |-> decodes, station_name |-> station, schema_name |-> schema,
     retention_type |-> rtype, retention_value |-> rvalue,
     storage_type |-> storage, replicas |-> replicas,
     idempotency_window |-> idem,
     dls_configuration |-> [poison |-> TRUE, schemaverse |-> FALSE],
     tags |-> FALSE, actor |-> TRUE]

Plain(station) == Payload(TRUE, station, "", "", 0, "", 0, 0)
Undecodable == Payload(FALSE, "", "", "", 0, "", 0, 0)

CreatePayloads ==
    { Plain("A"), Plain("?"), Undecodable,
      Payload(TRUE, "a", "S1", "messages", 10000, "memory", 3, 50),
      Payload(TRUE, "a", "nope", "", 0, "", 0, 0),
      Payload(TRUE, "a", "", "Bytes", 7, "disk", 0, 200),
      Payload(TRUE, "a", "", "", 0, "", 6, 0) }

HttpCreatePayloads ==
    { Plain("a"), Plain("?"),
      [Payload(TRUE, "A", "s1", "messages", 0, "", 0, 0) EXCEPT !.tags = TRUE] }

DestroyPayloads == { Plain("a"), Plain("?"), Undecodable }

AttachPayloads ==
    { [Plain("a") EXCEPT !.schema_name = "S1"],
      [Plain("a") EXCEPT !.schema_name = "nope"],
      [Plain("?") EXCEPT !.schema_name = "s1"],
      Undecodable }

DetachPayloads == { Plain("a"), Plain("?"), Undecodable }

NoStation ==
    [name |-> "", is_deleted |-> FALSE, is_deleted_exists |-> FALSE,
     is_native |-> FALSE, schema |-> EmptySchema, retention_type |-> "", retention_value |-> 0,
     storage_type |-> "", replicas |-> 0, idempotency_window |-> 0,
     dls_configuration |-> [poison |-> FALSE, schemaverse |-> FALSE]]

IdleTask ==
    [pc |-> "idle", kind |-> "none", rid |-> 0, req |-> Undecodable,
     stationName |-> StationNameFromStr("?"), station |-> 0,
     exist |-> FALSE, newStation |-> NoStation, replies |-> <<>>,
     made |-> {}, wrote |-> 0, tomb |-> 0, names |-> <<>>,
     ids |-> <<>>, durable |-> 0, amount |-> 0, msgs |-> <<>>, todo |-> <<>>,
     timedOut |-> FALSE, deleted |-> {}, fetched |-> <<>>,
     poisoned |-> <<>>, schemaFailed |-> <<>>,
     dlsMessage |-> [ID |-> <<>>, Headers |-> <<>>, PoisonedCgs |-> <<>>],
     poisonedCgs |-> <<>>, cgMembers |-> <<>>,
     isActive |-> FALSE, isDeleted |-> FALSE,
     sm |-> [Header |-> <<>>, Sequence |-> 0],
     msg |-> [Headers |-> <<>>,
              Producer |-> [Name |-> "", ConnectionId |-> ""],
              PoisonedCgs |-> <<>>],
     lookups |-> <<>>,
     deliveries |-> {},
     stationNames |-> <<>>]

VARIABLES
    stations,    \* stationsCollection, in natural (insertion) order; _id = index
    streams,     \* the streams of the engine
    producers,   \* producersCollection
    consumers,   \* consumersCollection
    tags,        \* ids of the stations that carry tags
    auditLogs,   \* number of audit logs per external station name
    published,   \* schema updates published, in publication order
    applied,     \* rids of the binding writes, in the order the store applied them
    task,        \* the handler task of each slot
    started,     \* requests received so far
    faults,      \* store and engine failures so far
    crashed,     \* an unrecovered panic has ended the process
    dlsMsgs,     \* the messages of the DLS stream of station a
    dlsSeq,      \* the last sequence the DLS stream assigned
    durables,    \* the durable consumers of the DLS stream
    nuid,        \* serv.memphis.nuid: the last unique id handed out
    resent       \* messages published on the DLS resend subjects, in order

vars == <<stations, streams, producers, consumers, tags, auditLogs,
          published, applied, task, started, faults, crashed,
          dlsMsgs, dlsSeq, durables, nuid, resent>>

dlsVars == <<dlsMsgs, dlsSeq, durables, nuid, resent>>

store == <<stations, producers, consumers, tags, auditLogs>>

(***************************************************************************)
(* Replies on the reply subject (memphis_sdk_handlers.go).                 *)
(***************************************************************************)
respondOnGlobalAcc(t, resp) == [t EXCEPT !.replies = Append(@, resp)]

respondWithErr(t, err) ==
    respondOnGlobalAcc(t, IF err # NoErr THEN err ELSE "")

respondWithErrOrJsApiResp(jsApi, t, err) ==
    IF jsApi THEN respondOnGlobalAcc(t, "JSApiResponse")
    ELSE respondWithErr(t, err)

Return(t) == [t EXCEPT !.pc = "done"]

(***************************************************************************)
(* The metadata store.  FindOne and UpdateOne take the first matching      *)
(* document in natural order.                                              *)
(***************************************************************************)
Min(S) == CHOOSE x \in S : \A y \in S : x <= y

Range(seq) == {seq[i] : i \in DOMAIN seq}

(* The filter {name, $or: [is_deleted false, is_deleted absent]}.  A record *)
(* without the field reads is_deleted = FALSE.                              *)
LiveIds(ext) ==
    {i \in DOMAIN stations : stations[i].name = ext /\ ~stations[i].is_deleted}

(* The filter {name, is_deleted: false}: the field is there and is false. *)
LiveEqIds(ext) ==
    {i \in LiveIds(ext) : stations[i].is_deleted_exists}

IsStationExist(sn) ==
    LET ids == LiveIds(sn.external)
    IN IF ids = {} THEN [exist |-> FALSE, station |-> 0]
       ELSE [exist |-> TRUE, station |-> Min(ids)]

IsSchemaExist(schemaName) == schemaName \in SchemaNames

Fault == faults < MaxFaults /\ faults' = faults + 1

CreateAuditLogs(ext) ==
    \/ auditLogs' = [auditLogs EXCEPT ![ext] = @ + 1] /\ UNCHANGED faults
    \/ Fault /\ UNCHANGED auditLogs

(***************************************************************************)
(* createStationDirectIntern, lines 221-289: retention, storage, replicas  *)
(* and idempotency window, then the station record.                        *)
(***************************************************************************)
(* Lines 265-269 with < in place of <= in the first test. *)
NormalIdempotencyStrict(w) ==
    IF w < 0 THEN 120000 ELSE IF w < 100 THEN 100 ELSE w

NormalIdempotency(w) ==
    IF w <= 0 THEN 120000 ELSE IF w < 100 THEN 100 ELSE w

BuildStationDirect(csr, ext, schemaDetails, isNative) ==
    LET retentionType ==
            IF csr.retention_type # "" THEN ToLower(csr.retention_type)
            ELSE "message_age_sec"
        retentionValue ==
            IF csr.retention_type # "" THEN csr.retention_value ELSE 604800
        storageType ==
            IF csr.storage_type # "" THEN ToLower(csr.storage_type)
            ELSE "file"
        replicas == IF csr.replicas > 0 THEN csr.replicas ELSE 1
        err ==
            IF csr.retention_type # "" /\ validateRetentionType(retentionType) # NoErr
            THEN validateRetentionType(retentionType)
            ELSE IF csr.storage_type # "" /\ validateStorageType(storageType) # NoErr
            THEN validateStorageType(storageType)
            ELSE IF csr.replicas > 0 THEN validateReplicas(replicas)
            ELSE NoErr
    IN [err |-> err,
        station |->
            [name |-> ext, is_deleted |-> FALSE, is_deleted_exists |-> TRUE,
             is_native |-> isNative, schema |-> schemaDetails, retention_type |-> retentionType,
             retention_value |-> retentionValue, storage_type |-> storageType,
             replicas |-> replicas,
             idempotency_window |-> NormalIdempotency(csr.idempotency_window),
             dls_configuration |-> csr.dls_configuration]]

(***************************************************************************)
(* The dispatcher: each request is handed to a task of its own.  A slot    *)
(* is taken lowest first.                                                  *)
(***************************************************************************)
Spawn(p, kind, pc0, req) ==
    /\ ~crashed
    /\ started < MaxRequests
    /\ task[p].pc = "idle"
    /\ \A q \in Slots : q < p => task[q].pc # "idle"
    /\ started' = started + 1
    /\ task' = [task EXCEPT ![p] =
                   [IdleTask EXCEPT !.pc = pc0, !.kind = kind,
                                    !.rid = started + 1, !.req = req]]
    /\ UNCHANGED <<store, streams, published, applied, faults, crashed, dlsVars>>

createStationHandler(p) ==
    \E req \in CreatePayloads : Spawn(p, "createStation", "cs_check", req)

destroyStationHandler(p) ==
    \E req \in DestroyPayloads : Spawn(p, "removeStation", "rs_check", req)

attachSchemaHandler(p) ==
    \E req \in AttachPayloads : Spawn(p, "useSchema", "us_check", req)

detachSchemaHandler(p) ==
    \E req \in DetachPayloads : Spawn(p, "removeSchema", "ds_check", req)

(* The task has returned; its slot is free again. *)
Finish(p) ==
    /\ ~crashed
    /\ task[p].pc = "done"
    /\ task' = [task EXCEPT ![p] = IdleTask]
    /\ UNCHANGED <<store, streams, published, applied, started, faults, crashed,
                   dlsVars>>

(* A step of a station handler: its task moves on.  The station handlers *)
(* never touch the DLS stream, its consumers or the resend subjects.     *)
Step(p, t) == task' = [task EXCEPT ![p] = t] /\ UNCHANGED dlsVars

(***************************************************************************)
(* createStationDirect and createStationDirectIntern (native: the          *)
(* stream-creation callback is nil).                                       *)
(***************************************************************************)
CreateIsNative == TRUE

(* Lines 221-304 after the schema is resolved: validation, the record. *)
CreateValidated(t, schemaDetails) ==
    LET b == BuildStationDirect(t.req, t.stationName.external, schemaDetails,
                                CreateIsNative)
    IN IF b.err # NoErr
       THEN Return(respondWithErrOrJsApiResp(~CreateIsNative, t, b.err))
       ELSE [t EXCEPT !.pc = "cs_stream", !.newStation = b.station]

(* Lines 184-190 without the return after the reply. *)
CreateExistsNoReturn(t, err) ==
    [respondWithErrOrJsApiResp(~CreateIsNative, t, err) EXCEPT !.pc = "cs_schema"]

(* Lines 184-190: the reply passes err, which is nil here. *)
CreateExists(t, err) ==
    Return(respondWithErrOrJsApiResp(~CreateIsNative, t, err))

(* Lines 203-208: likewise for a schema that does not exist. *)
CreateSchemaMissing(t, err) ==
    Return(respondWithErrOrJsApiResp(~CreateIsNative, t, err))

(* Lines 151-190: decode, canonicalize, IsStationExist. *)
createStationDirect(p) ==
    LET t == task[p]
        sn == StationNameFromStr(t.req.station_name)
        found == IsStationExist(sn)
        t1 == [t EXCEPT !.stationName = sn, !.exist = found.exist]
    IN /\ ~crashed
       /\ t.pc = "cs_check"
       /\ UNCHANGED <<store, streams, published, applied, started, crashed>>
       /\ \/ /\ ~t.req.decodes
             /\ Step(p, Return(respondWithErr(t, JsonErr)))
             /\ UNCHANGED faults
          \/ /\ t.req.decodes /\ sn.err # NoErr
             /\ Step(p, Return(respondWithErrOrJsApiResp(~CreateIsNative, t, sn.err)))
             /\ UNCHANGED faults
          \/ /\ t.req.decodes /\ sn.err = NoErr
             /\ Fault
             /\ Step(p, Return(respondWithErrOrJsApiResp(~CreateIsNative,
                                   [t EXCEPT !.stationName = sn], StoreErr)))
          \/ /\ t.req.decodes /\ sn.err = NoErr
             /\ UNCHANGED faults
             /\ IF found.exist
                THEN Step(p, CreateExists(t1, NoErr))
                ELSE IF t.req.schema_name # ""
                THEN Step(p, [t1 EXCEPT !.pc = "cs_schema"])
                ELSE Step(p, CreateValidated(t1, EmptySchema))

(* Lines 192-219 with the main stream created before the schema is *)
(* looked up.                                                      *)
createStationSchemaStreamFirst(p) ==
    LET t == task[p]
        schemaName == ToLower(t.req.schema_name)
    IN /\ ~crashed
       /\ t.pc = "cs_schema"
       /\ UNCHANGED <<store, published, applied, started, crashed>>
       /\ \/ /\ Fault
             /\ Step(p, Return(respondWithErrOrJsApiResp(~CreateIsNative, t, StoreErr)))
             /\ UNCHANGED streams
          \/ /\ UNCHANGED faults
             /\ streams' = streams \cup {t.stationName.internal}
             /\ IF ~IsSchemaExist(schemaName)
                THEN Step(p, CreateSchemaMissing(t, NoErr))
                ELSE Step(p, CreateValidated(t,
                         [name |-> schemaName, version |-> ActiveVersion(schemaName)]))

(* Lines 192-219: IsSchemaExist and getActiveVersionBySchemaId. *)
createStationSchema(p) ==
    LET t == task[p]
        schemaName == ToLower(t.req.schema_name)
    IN /\ ~crashed
       /\ t.pc = "cs_schema"
       /\ UNCHANGED <<store, streams, published, applied, started, crashed>>
       /\ \/ /\ Fault
             /\ Step(p, Return(respondWithErrOrJsApiResp(~CreateIsNative, t, StoreErr)))
          \/ /\ UNCHANGED faults
             /\ IF ~IsSchemaExist(schemaName)
                THEN Step(p, CreateSchemaMissing(t, NoErr))
                ELSE Step(p, CreateValidated(t,
                         [name |-> schemaName, version |-> ActiveVersion(schemaName)]))

(* Lines 291-304: s.CreateStream. *)
createStationStream(p) ==
    LET t == task[p]
        name == MainStream(t.stationName.internal)
    IN /\ ~crashed
       /\ t.pc = "cs_stream"
       /\ UNCHANGED <<store, published, applied, started, crashed>>
       /\ \/ /\ Fault
             /\ Step(p, Return(respondWithErr(t, EngineErr)))
             /\ UNCHANGED streams
          \/ /\ UNCHANGED faults
             /\ streams' = streams \cup {name}
             /\ Step(p, [t EXCEPT !.pc = "cs_dls", !.made = @ \cup {name}])

(* Lines 306-311 without the return after the failed CreateDlsStream. *)
createStationDlsNoReturn(p) ==
    LET t == task[p]
        name == DlsStream(t.stationName.internal)
    IN /\ ~crashed
       /\ t.pc = "cs_dls"
       /\ UNCHANGED <<store, published, applied, started, crashed>>
       /\ \/ /\ Fault
             /\ Step(p, [respondWithErr(t, EngineErr) EXCEPT !.pc = "cs_insert"])
             /\ UNCHANGED streams
          \/ /\ UNCHANGED faults
             /\ streams' = streams \cup {name}
             /\ Step(p, [t EXCEPT !.pc = "cs_insert", !.made = @ \cup {name}])

(* Lines 306-311: s.CreateDlsStream. *)
createStationDls(p) ==
    LET t == task[p]
        name == DlsStream(t.stationName.internal)
    IN /\ ~crashed
       /\ t.pc = "cs_dls"
       /\ UNCHANGED <<store, published, applied, started, crashed>>
       /\ \/ /\ Fault
             /\ Step(p, Return(respondWithErr(t, EngineErr)))
             /\ UNCHANGED streams
          \/ /\ UNCHANGED faults
             /\ streams' = streams \cup {name}
             /\ Step(p, [t EXCEPT !.pc = "cs_insert", !.made = @ \cup {name}])

(* An insert that takes place only when no record of any state carries *)
(* the name: an upsert keyed by the name alone.                        *)
InsertOneIfNameAbsent(coll, doc) ==
    IF \E i \in DOMAIN coll : coll[i].name = doc.name
    THEN coll
    ELSE Append(coll, doc)

(* Line 313: stationsCollection.InsertOne. *)
InsertOne(coll, doc) ==
    Append(coll, doc)

(* Lines 313-347: InsertOne, the audit log, the reply. *)
(* Lines 313-347 with the CreateAuditLogs error answered like the *)
(* InsertOne error.                                               *)
createStationInsertAuditFatal(p) ==
    LET t == task[p]
    IN /\ ~crashed
       /\ t.pc = "cs_insert"
       /\ UNCHANGED <<streams, producers, consumers, tags, published, applied,
                      started, crashed>>
       /\ \/ /\ Fault
             /\ Step(p, Return(respondWithErr(t, StoreErr)))
             /\ UNCHANGED <<stations, auditLogs>>
          \/ /\ stations' = InsertOne(stations, t.newStation)
             /\ auditLogs' = [auditLogs EXCEPT ![t.stationName.external] = @ + 1]
             /\ UNCHANGED faults
             /\ Step(p, Return(respondWithErr(
                    [t EXCEPT !.wrote = Len(stations) + 1], NoErr)))
          \/ /\ stations' = InsertOne(stations, t.newStation)
             /\ Fault
             /\ UNCHANGED auditLogs
             /\ Step(p, Return(respondWithErr(
                    [t EXCEPT !.wrote = Len(stations) + 1], StoreErr)))

createStationInsert(p) ==
    LET t == task[p]
    IN /\ ~crashed
       /\ t.pc = "cs_insert"
       /\ UNCHANGED <<streams, producers, consumers, tags, published, applied,
                      started, crashed>>
       /\ \/ /\ Fault
             /\ Step(p, Return(respondWithErr(t, StoreErr)))
             /\ UNCHANGED <<stations, auditLogs>>
          \/ /\ stations' = InsertOne(stations, t.newStation)
             /\ CreateAuditLogs(t.stationName.external)
             /\ Step(p, Return(respondWithErr(
                    [t EXCEPT !.wrote = Len(stations) + 1], NoErr)))

(***************************************************************************)
(* removeStationDirect, removeStationDirectIntern (native) and             *)
(* removeStationResources.                                                 *)
(***************************************************************************)
(* Lines 899-938: decode, canonicalize, IsStationExist. *)
(* Lines 899-938 with the nil err of IsStationExist passed to the reply *)
(* of the station that does not exist.                                 *)
removeStationDirectNilErr(p) ==
    LET t == task[p]
        sn == StationNameFromStr(t.req.station_name)
        found == IsStationExist(sn)
        t1 == [t EXCEPT !.stationName = sn, !.exist = found.exist,
                        !.station = found.station]
    IN /\ ~crashed
       /\ t.pc = "rs_check"
       /\ UNCHANGED <<store, streams, published, applied, started, crashed>>
       /\ \/ /\ ~t.req.decodes
             /\ Step(p, Return(respondWithErr(t, JsonErr)))
             /\ UNCHANGED faults
          \/ /\ t.req.decodes /\ sn.err # NoErr
             /\ Step(p, Return(respondWithErrOrJsApiResp(FALSE, t, sn.err)))
             /\ UNCHANGED faults
          \/ /\ t.req.decodes /\ sn.err = NoErr
             /\ Fault
             /\ Step(p, Return(respondWithErrOrJsApiResp(FALSE,
                                   [t EXCEPT !.stationName = sn], StoreErr)))
          \/ /\ t.req.decodes /\ sn.err = NoErr
             /\ UNCHANGED faults
             /\ IF ~found.exist
                THEN Step(p, Return(respondWithErrOrJsApiResp(FALSE, t1, NoErr)))
                ELSE Step(p, [t1 EXCEPT !.pc = "rs_main"])

(* Lines 899-938: decode, canonicalize, IsStationExist. *)
removeStationDirect(p) ==
    LET t == task[p]
        sn == StationNameFromStr(t.req.station_name)
        found == IsStationExist(sn)
        t1 == [t EXCEPT !.stationName = sn, !.exist = found.exist,
                        !.station = found.station]
    IN /\ ~crashed
       /\ t.pc = "rs_check"
       /\ UNCHANGED <<store, streams, published, applied, started, crashed>>
       /\ \/ /\ ~t.req.decodes
             /\ Step(p, Return(respondWithErr(t, JsonErr)))
             /\ UNCHANGED faults
          \/ /\ t.req.decodes /\ sn.err # NoErr
             /\ Step(p, Return(respondWithErrOrJsApiResp(FALSE, t, sn.err)))
             /\ UNCHANGED faults
          \/ /\ t.req.decodes /\ sn.err = NoErr
             /\ Fault
             /\ Step(p, Return(respondWithErrOrJsApiResp(FALSE,
                                   [t EXCEPT !.stationName = sn], StoreErr)))
          \/ /\ t.req.decodes /\ sn.err = NoErr
             /\ UNCHANGED faults
             /\ IF ~found.exist
                THEN Step(p, Return(respondWithErrOrJsApiResp(FALSE, t1,
                         "Station " \o NoStation.name \o " does not exist")))
                ELSE Step(p, [t1 EXCEPT !.pc = "rs_main"])

(* removeStationResources returns to its caller: removeStationDirectIntern *)
(* (lines 940-945) replies with the error and goes on to the tombstone,    *)
(* the loop of StationsHandler.RemoveStation (lines 836-841) answers 500   *)
(* and goes on to the next name.                                           *)
ResourcesFailed(t, err) ==
    IF t.kind = "RemoveStation"
    THEN Return(respondOnGlobalAcc(t, "500 Server error"))
    ELSE Return(respondWithErr(t, err))

ResourcesRemoved(t) ==
    IF t.kind = "RemoveStation"
    THEN [t EXCEPT !.pc = "hr_station"]
    ELSE [t EXCEPT !.pc = "rs_tomb"]

(* removeStationResources, lines 103-118: the main stream. *)
removeStationMainStream(p) ==
    LET t == task[p]
        sn == StationNameFromStr(stations[t.station].name)
    IN /\ ~crashed
       /\ t.pc = "rs_main"
       /\ UNCHANGED <<store, published, applied, started, crashed>>
       /\ \/ /\ Fault
             /\ Step(p, ResourcesFailed(t, EngineErr))
             /\ UNCHANGED streams
          \/ /\ UNCHANGED faults
             /\ streams' = streams \ {MainStream(sn.internal)}
             /\ Step(p, [t EXCEPT !.pc = "rs_dls"])

(* removeStationResources, lines 120-123: the DLS stream. *)
removeStationDlsStream(p) ==
    LET t == task[p]
        sn == StationNameFromStr(stations[t.station].name)
    IN /\ ~crashed
       /\ t.pc = "rs_dls"
       /\ UNCHANGED <<store, published, applied, started, crashed>>
       /\ \/ /\ Fault
             /\ Step(p, ResourcesFailed(t, EngineErr))
             /\ UNCHANGED streams
          \/ /\ UNCHANGED faults
             /\ streams' = streams \ {DlsStream(sn.internal)}
             /\ task' = [task EXCEPT ![p] = [t EXCEPT !.pc = "rs_producers"]]
             /\ dlsMsgs' = {}
             /\ dlsSeq' = 0
             /\ durables' = {}
             /\ UNCHANGED <<nuid, resent>>

MarkDeleted(coll, stationId) ==
    [i \in DOMAIN coll |->
        IF coll[i].station_id = stationId
        THEN [coll[i] EXCEPT !.is_active = FALSE, !.is_deleted = TRUE]
        ELSE coll[i]]

(* removeStationResources, lines 125-133: tags, then the producers. *)
removeStationProducers(p) ==
    LET t == task[p]
    IN /\ ~crashed
       /\ t.pc = "rs_producers"
       /\ tags' = tags \ {t.station}
       /\ UNCHANGED <<stations, consumers, auditLogs, streams, published,
                      applied, started, crashed>>
       /\ \/ /\ Fault
             /\ Step(p, ResourcesFailed(t, StoreErr))
             /\ UNCHANGED producers
          \/ /\ UNCHANGED faults
             /\ producers' = MarkDeleted(producers, t.station)
             /\ Step(p, [t EXCEPT !.pc = "rs_consumers"])

(* removeStationResources, lines 135-148: the consumers, then the audit  *)
(* logs of the station, whose failure is only logged.                    *)
removeStationConsumers(p) ==
    LET t == task[p]
        name == stations[t.station].name
    IN /\ ~crashed
       /\ t.pc = "rs_consumers"
       /\ UNCHANGED <<stations, producers, tags, streams, published, applied,
                      started, crashed>>
       /\ \/ /\ Fault
             /\ Step(p, ResourcesFailed(t, StoreErr))
             /\ UNCHANGED <<consumers, auditLogs>>
          \/ /\ consumers' = MarkDeleted(consumers, t.station)
             /\ \/ auditLogs' = [auditLogs EXCEPT ![name] = 0] /\ UNCHANGED faults
                \/ Fault /\ UNCHANGED auditLogs
             /\ Step(p, ResourcesRemoved(t))

(* UpdateOne on the first live record of a name. *)
(* UpdateOne under a filter of the name alone. *)
FirstByName(ext) ==
    LET ids == {i \in DOMAIN stations : stations[i].name = ext}
    IN IF ids = {} THEN 0 ELSE Min(ids)

FirstLive(ext) ==
    LET ids == LiveIds(ext)
    IN IF ids = {} THEN 0 ELSE Min(ids)

(* UpdateOne under the filter {name, is_deleted: false}. *)
FirstLiveEq(ext) ==
    LET ids == LiveEqIds(ext)
    IN IF ids = {} THEN 0 ELSE Min(ids)

Tombstone(st) == [st EXCEPT !.is_deleted = TRUE, !.is_deleted_exists = TRUE]

(* Lines 947-980: the tombstone, the audit log, the reply. *)
removeStationTombstone(p) ==
    LET t == task[p]
        ext == t.stationName.external
        ids == LiveIds(ext)
    IN /\ ~crashed
       /\ t.pc = "rs_tomb"
       /\ UNCHANGED <<streams, producers, consumers, tags, published, applied,
                      started, crashed>>
       /\ \/ /\ Fault
             /\ Step(p, Return(respondWithErr(t, StoreErr)))
             /\ UNCHANGED <<stations, auditLogs>>
          \/ /\ stations' = IF FirstLive(ext) = 0 THEN stations
                          ELSE [stations EXCEPT ![FirstLive(ext)] = Tombstone(@)]
             /\ CreateAuditLogs(ext)
             /\ Step(p, Return(respondWithErr(
                    [t EXCEPT !.tomb = IF ids = {} THEN 0 ELSE Min(ids)], NoErr)))

(***************************************************************************)
(* updateStationProducersOfSchemaChange: the update goes out on the        *)
(* update subject of the station.                                          *)
(***************************************************************************)
SchemaUpdate(sn, rid, updateType, schemaName) ==
    [subject |-> sn.internal, rid |-> rid, update_type |-> updateType,
     schema |-> schemaName]

(***************************************************************************)
(* useSchemaDirect.                                                        *)
(***************************************************************************)
(* Lines 1694-1721: decode, canonicalize, IsStationExist. *)
useSchemaDirect(p) ==
    LET t == task[p]
        sn == StationNameFromStr(t.req.station_name)
        found == IsStationExist(sn)
        t1 == [t EXCEPT !.stationName = sn, !.exist = found.exist]
    IN /\ ~crashed
       /\ t.pc = "us_check"
       /\ UNCHANGED <<store, streams, published, applied, started, crashed>>
       /\ \/ /\ ~t.req.decodes
             /\ Step(p, Return(respondWithErr(t,
                    "failed attaching schema " \o t.req.schema_name \o ": " \o JsonErr)))
             /\ UNCHANGED faults
          \/ /\ t.req.decodes /\ sn.err # NoErr
             /\ Step(p, Return(respondWithErr(t, sn.err)))
             /\ UNCHANGED faults
          \/ /\ t.req.decodes /\ sn.err = NoErr
             /\ Fault
             /\ Step(p, Return(respondWithErr([t EXCEPT !.stationName = sn], StoreErr)))
          \/ /\ t.req.decodes /\ sn.err = NoErr
             /\ UNCHANGED faults
             /\ IF ~found.exist
                THEN Step(p, Return(respondWithErr(t1,
                         "memphis: Station " \o sn.external \o " does not exist")))
                ELSE Step(p, [t1 EXCEPT !.pc = "us_schema"])

(* Lines 1723-1744: IsSchemaExist and getActiveVersionBySchemaId.  For a  *)
(* schema that does not exist line 1732 calls err.Error() on the nil err: *)
(* the task panics, nothing recovers it and the process ends.             *)
useSchemaLookup(p) ==
    LET t == task[p]
        schemaName == ToLower(t.req.schema_name)
    IN /\ ~crashed
       /\ t.pc = "us_schema"
       /\ UNCHANGED <<store, streams, published, applied, started>>
       /\ \/ /\ Fault
             /\ Step(p, Return(respondWithErr(t, StoreErr)))
             /\ UNCHANGED crashed
          \/ /\ ~IsSchemaExist(schemaName)
             /\ Step(p, [t EXCEPT !.pc = "panicked"])
             /\ crashed' = TRUE
             /\ UNCHANGED faults
          \/ /\ IsSchemaExist(schemaName)
             /\ Step(p, [t EXCEPT !.pc = "us_write",
                         !.newStation.schema =
                             [name |-> schemaName,
                              version |-> ActiveVersion(schemaName)]])
             /\ UNCHANGED <<faults, crashed>>

(* Lines 1746-1770 with a $set of the schema name alone: the version of *)
(* the binding stays what it was.                                      *)
useSchemaWriteNameOnly(p) ==
    LET t == task[p]
        ext == t.stationName.external
        schemaDetails == t.newStation.schema
        SetName(st) == [st EXCEPT !.schema.name = schemaDetails.name]
    IN /\ ~crashed
       /\ t.pc = "us_write"
       /\ UNCHANGED <<producers, consumers, tags, streams, published, started,
                      crashed>>
       /\ \/ /\ Fault
             /\ Step(p, Return(respondWithErr(t, StoreErr)))
             /\ UNCHANGED <<stations, auditLogs, applied>>
          \/ /\ stations' = IF FirstLiveEq(ext) = 0 THEN stations
                          ELSE [stations EXCEPT ![FirstLiveEq(ext)] = SetName(@)]
             /\ applied' = IF LiveEqIds(ext) = {} THEN applied
                           ELSE Append(applied, t.rid)
             /\ CreateAuditLogs(t.stationName.internal)
             /\ Step(p, [t EXCEPT !.pc = "us_publish"])

(* Lines 1746-1770 with $setOnInsert in place of $set: a record that *)
(* exists is left as it is.                                          *)
useSchemaWriteSetOnInsert(p) ==
    LET t == task[p]
        ext == t.stationName.external
    IN /\ ~crashed
       /\ t.pc = "us_write"
       /\ UNCHANGED <<producers, consumers, tags, streams, published, started,
                      crashed>>
       /\ \/ /\ Fault
             /\ Step(p, Return(respondWithErr(t, StoreErr)))
             /\ UNCHANGED <<stations, auditLogs, applied>>
          \/ /\ stations' = stations
             /\ applied' = IF LiveEqIds(ext) = {} THEN applied
                           ELSE Append(applied, t.rid)
             /\ CreateAuditLogs(t.stationName.internal)
             /\ Step(p, [t EXCEPT !.pc = "us_publish"])

(* Lines 1746-1770: the binding write, then the audit log. *)
useSchemaWrite(p) ==
    LET t == task[p]
        ext == t.stationName.external
        schemaDetails == t.newStation.schema
        SetSchema(st) == [st EXCEPT !.schema = schemaDetails]
    IN /\ ~crashed
       /\ t.pc = "us_write"
       /\ UNCHANGED <<producers, consumers, tags, streams, published, started,
                      crashed>>
       /\ \/ /\ Fault
             /\ Step(p, Return(respondWithErr(t, StoreErr)))
             /\ UNCHANGED <<stations, auditLogs, applied>>
          \/ /\ stations' = IF FirstLiveEq(ext) = 0 THEN stations
                          ELSE [stations EXCEPT ![FirstLiveEq(ext)] = SetSchema(@)]
             /\ applied' = IF LiveEqIds(ext) = {} THEN applied
                           ELSE Append(applied, t.rid)
             /\ CreateAuditLogs(t.stationName.internal)
             /\ Step(p, [t EXCEPT !.pc = "us_publish"])

(* Lines 1777-1789: generateSchemaUpdateInit, the publication, the reply. *)
(* When the generation fails the task returns at line 1780.               *)
useSchemaPublish(p) ==
    LET t == task[p]
    IN /\ ~crashed
       /\ t.pc = "us_publish"
       /\ UNCHANGED <<store, streams, applied, started, crashed>>
       /\ \/ /\ Fault
             /\ Step(p, Return(t))
             /\ UNCHANGED published
          \/ /\ UNCHANGED faults
             /\ published' = Append(published,
                    SchemaUpdate(t.stationName, t.rid, "init", t.newStation.schema.name))
             /\ Step(p, Return(respondWithErr(t, NoErr)))

(***************************************************************************)
(* removeSchemaFromStationDirect and removeSchemaFromStation (updateDB).   *)
(***************************************************************************)
(* Lines 1825-1837 and 1793-1799. *)
removeSchemaFromStationDirect(p) ==
    LET t == task[p]
        sn == StationNameFromStr(t.req.station_name)
        found == IsStationExist(sn)
        t1 == [t EXCEPT !.stationName = sn, !.exist = found.exist]
    IN /\ ~crashed
       /\ t.pc = "ds_check"
       /\ UNCHANGED <<store, streams, published, applied, started, crashed>>
       /\ \/ /\ ~t.req.decodes
             /\ Step(p, Return(respondWithErr(t, JsonErr)))
             /\ UNCHANGED faults
          \/ /\ t.req.decodes /\ sn.err # NoErr
             /\ Step(p, Return(respondWithErr(t, sn.err)))
             /\ UNCHANGED faults
          \/ /\ t.req.decodes /\ sn.err = NoErr
             /\ Fault
             /\ Step(p, Return(respondWithErr([t EXCEPT !.stationName = sn], StoreErr)))
          \/ /\ t.req.decodes /\ sn.err = NoErr
             /\ UNCHANGED faults
             /\ IF ~found.exist
                THEN Step(p, Return(respondWithErr(t1,
                         "Station " \o sn.external \o " does not exist")))
                ELSE Step(p, [t1 EXCEPT !.pc = "ds_write"])

(* A $set that resets the version of the binding and keeps its name. *)
ClearSchemaVersion(st) == [st EXCEPT !.schema.version = 0]

ClearSchema(st) == [st EXCEPT !.schema = EmptySchema]

(* Lines 1801-1815: the binding is cleared. *)
removeSchemaWrite(p) ==
    LET t == task[p]
        ext == t.stationName.external
    IN /\ ~crashed
       /\ t.pc = "ds_write"
       /\ UNCHANGED <<producers, consumers, tags, auditLogs, streams, published,
                      started, crashed>>
       /\ \/ /\ Fault
             /\ Step(p, Return(respondWithErr(t, StoreErr)))
             /\ UNCHANGED <<stations, applied>>
          \/ /\ UNCHANGED faults
             /\ stations' = IF FirstLive(ext) = 0 THEN stations
                          ELSE [stations EXCEPT ![FirstLive(ext)] = ClearSchema(@)]
             /\ applied' = IF LiveIds(ext) = {} THEN applied
                           ELSE Append(applied, t.rid)
             /\ Step(p, [t EXCEPT !.pc = "ds_publish"])

(* Lines 1817-1822 and 1845: the Drop update, the reply. *)
removeSchemaPublish(p) ==
    LET t == task[p]
    IN /\ ~crashed
       /\ t.pc = "ds_publish"
       /\ UNCHANGED <<store, streams, applied, started, faults, crashed>>
       /\ published' = Append(published,
              SchemaUpdate(t.stationName, t.rid, "drop", ""))
       /\ Step(p, Return(respondWithErr(t, NoErr)))

(***************************************************************************)
(* StationsHandler.CreateStation, the HTTP variant.  Its responses are     *)
(* kept where the wire handlers keep their replies.                        *)
(***************************************************************************)
Abort(t, status, message) ==
    respondOnGlobalAcc(t, status \o " " \o message)

(* Lines 584-650: validation and the station record. *)
BuildStationHttp(body, ext, schemaDetails) ==
    LET given == body.retention_type # "" /\ body.retention_value > 0
        retentionType ==
            IF given THEN ToLower(body.retention_type) ELSE "message_age_sec"
        retentionValue == IF given THEN body.retention_value ELSE 604800
        storageType ==
            IF body.storage_type # "" THEN ToLower(body.storage_type) ELSE "file"
        replicas == IF body.replicas > 0 THEN body.replicas ELSE 1
        err ==
            IF given /\ validateRetentionType(retentionType) # NoErr
            THEN validateRetentionType(retentionType)
            ELSE IF body.storage_type # "" /\ validateStorageType(storageType) # NoErr
            THEN validateStorageType(storageType)
            ELSE IF body.replicas > 0 THEN validateReplicas(replicas)
            ELSE NoErr
    IN [err |-> err,
        station |->
            [name |-> ext, is_deleted |-> FALSE, is_deleted_exists |-> TRUE,
             is_native |-> TRUE, schema |-> schemaDetails, retention_type |-> retentionType,
             retention_value |-> retentionValue, storage_type |-> storageType,
             replicas |-> replicas,
             idempotency_window |-> NormalIdempotency(body.idempotency_window),
             dls_configuration |-> body.dls_configuration]]

HttpValidated(t, schemaDetails) ==
    LET b == BuildStationHttp(t.req, t.stationName.external, schemaDetails)
    IN IF b.err # NoErr
       THEN Return(Abort(t, "showable", b.err))
       ELSE [t EXCEPT !.pc = "hc_stream", !.newStation = b.station]

(* Lines 549-553: a missing actor is answered 401 and the handler goes on. *)
HttpUser(t) ==
    IF t.req.actor THEN t ELSE Abort(t, "401", "Unauthorized")

CreateStationHandler(p) ==
    \E req \in HttpCreatePayloads : Spawn(p, "CreateStation", "hc_check", req)

(* Lines 522-553. *)
CreateStation(p) ==
    LET t == task[p]
        sn == StationNameFromStr(t.req.station_name)
        found == IsStationExist(sn)
        t1 == [t EXCEPT !.stationName = sn, !.exist = found.exist]
    IN /\ ~crashed
       /\ t.pc = "hc_check"
       /\ UNCHANGED <<store, streams, published, applied, started, crashed>>
       /\ \/ /\ sn.err # NoErr
             /\ Step(p, Return(Abort(t, "showable", sn.err)))
             /\ UNCHANGED faults
          \/ /\ sn.err = NoErr
             /\ Fault
             /\ Step(p, Return(Abort([t EXCEPT !.stationName = sn], "500", "Server error")))
          \/ /\ sn.err = NoErr
             /\ UNCHANGED faults
             /\ IF found.exist
                THEN Step(p, Return(Abort(t1, "showable",
                         "Station " \o sn.external \o " already exists")))
                ELSE IF t.req.schema_name # ""
                THEN Step(p, [HttpUser(t1) EXCEPT !.pc = "hc_schema"])
                ELSE Step(p, HttpValidated(HttpUser(t1), EmptySchema))

(* Lines 555-582. *)
CreateStationSchema(p) ==
    LET t == task[p]
        schemaName == ToLower(t.req.schema_name)
    IN /\ ~crashed
       /\ t.pc = "hc_schema"
       /\ UNCHANGED <<store, streams, published, applied, started, crashed>>
       /\ \/ /\ Fault
             /\ Step(p, Return(Abort(t, "500", "Server Error")))
          \/ /\ UNCHANGED faults
             /\ IF ~IsSchemaExist(schemaName)
                THEN Step(p, Return(Abort(t, "showable",
                         "Schema " \o schemaName \o " does not exist")))
                ELSE Step(p, HttpValidated(t,
                         [name |-> schemaName, version |-> ActiveVersion(schemaName)]))

(* Lines 652-657. *)
CreateStationStream(p) ==
    LET t == task[p]
        name == MainStream(t.stationName.internal)
    IN /\ ~crashed
       /\ t.pc = "hc_stream"
       /\ UNCHANGED <<store, published, applied, started, crashed>>
       /\ \/ /\ Fault
             /\ Step(p, Return(Abort(t, "500", "Server error")))
             /\ UNCHANGED streams
          \/ /\ UNCHANGED faults
             /\ streams' = streams \cup {name}
             /\ Step(p, [t EXCEPT !.pc = "hc_dls", !.made = @ \cup {name}])

(* Lines 659-664. *)
CreateStationDls(p) ==
    LET t == task[p]
        name == DlsStream(t.stationName.internal)
    IN /\ ~crashed
       /\ t.pc = "hc_dls"
       /\ UNCHANGED <<store, published, applied, started, crashed>>
       /\ \/ /\ Fault
             /\ Step(p, Return(Abort(t, "500", "Server error")))
             /\ UNCHANGED streams
          \/ /\ UNCHANGED faults
             /\ streams' = streams \cup {name}
             /\ Step(p, [t EXCEPT !.pc = "hc_upsert", !.made = @ \cup {name}])

(* Lines 666-798: the upsert keyed by (name, is_deleted = false), the  *)
(* tags, the audit log, the response.                                  *)
CreateStationUpsert(p) ==
    LET t == task[p]
        ext == t.newStation.name
        id == Len(stations) + 1
        t1 == [t EXCEPT !.wrote = id]
    IN /\ ~crashed
       /\ t.pc = "hc_upsert"
       /\ UNCHANGED <<streams, producers, consumers, published, applied,
                      started, crashed>>
       /\ \/ /\ Fault
             /\ Step(p, Return(Abort(t, "500", "Server error")))
             /\ UNCHANGED <<stations, tags, auditLogs>>
          \/ /\ LiveEqIds(ext) # {}
             /\ Step(p, Return(Abort(t, "showable",
                    "Station " \o ext \o " already exists")))
             /\ UNCHANGED <<stations, tags, auditLogs, faults>>
          \/ /\ LiveEqIds(ext) = {}
             /\ stations' = Append(stations, t.newStation)
             /\ \/ /\ t.req.tags
                   /\ Fault
                   /\ Step(p, Return(Abort(t1, "500", "Server error")))
                   /\ UNCHANGED <<tags, auditLogs>>
                \/ /\ tags' = IF t.req.tags THEN tags \cup {id} ELSE tags
                   /\ CreateAuditLogs(t.stationName.external)
                   /\ Step(p, Return(respondOnGlobalAcc(t1, "200")))

(***************************************************************************)
(* StationsHandler.UseSchema, the HTTP variant of AttachSchema: one schema *)
(* is attached to each station of body.StationNames in turn.              *)
(***************************************************************************)
UseBody(schema, stationNames) ==
    [station_names |-> stationNames] @@ [Plain("") EXCEPT !.schema_name = schema]

UseSchemaPayloads ==
    { UseBody("S1", <<"A">>), UseBody("s1", <<"a", "?">>),
      UseBody("nope", <<"a">>) }

UseSchemaHandler(p) ==
    \E req \in UseSchemaPayloads : Spawn(p, "UseSchema", "hu_schema", req)

(* Lines 1591-1625: IsSchemaExist, getActiveVersionBySchemaId and the user, *)
(* whose absence is answered 401 without a return.                         *)
UseSchema(p) ==
    LET t == task[p]
        schemaName == ToLower(t.req.schema_name)
    IN /\ ~crashed
       /\ t.pc = "hu_schema"
       /\ UNCHANGED <<store, streams, published, applied, started, crashed>>
       /\ \/ /\ Fault
             /\ Step(p, Return(Abort(t, "500", "Server Error")))
          \/ /\ ~IsSchemaExist(schemaName)
             /\ Step(p, Return(Abort(t, "showable",
                    "Schema " \o schemaName \o " does not exist")))
             /\ UNCHANGED faults
          \/ /\ IsSchemaExist(schemaName)
             /\ Step(p, [HttpUser(t) EXCEPT
                    !.pc = "hu_station",
                    !.names = t.req.station_names,
                    !.newStation.schema =
                        [name |-> schemaName,
                         version |-> ActiveVersion(schemaName)]])
             /\ UNCHANGED faults

(* Lines 1627-1646 and 1685-1691: the next station of the list, or the *)
(* 200 response after the last.                                        *)
UseSchemaStation(p) ==
    LET t == task[p]
        sn == StationNameFromStr(Head(t.names))
        found == IsStationExist(sn)
    IN /\ ~crashed
       /\ t.pc = "hu_station"
       /\ UNCHANGED <<store, streams, published, applied, started, crashed>>
       /\ \/ /\ t.names = <<>>
             /\ Step(p, Return(respondOnGlobalAcc(t, "200")))
             /\ UNCHANGED faults
          \/ /\ t.names # <<>>
             /\ sn.err # NoErr
             /\ Step(p, Return(Abort(t, "showable", sn.err)))
             /\ UNCHANGED faults
          \/ /\ t.names # <<>>
             /\ sn.err = NoErr
             /\ Fault
             /\ Step(p, Return(Abort(t, "500", "Server error")))
          \/ /\ t.names # <<>>
             /\ sn.err = NoErr
             /\ ~found.exist
             /\ Step(p, Return(Abort(t, "showable",
                    "Station " \o NoStation.name \o " does not exist")))
             /\ UNCHANGED faults
          \/ /\ t.names # <<>>
             /\ sn.err = NoErr
             /\ found.exist
             /\ Step(p, [t EXCEPT !.pc = "hu_write", !.stationName = sn,
                                  !.exist = TRUE, !.station = found.station])
             /\ UNCHANGED faults

(* Lines 1648-1670: the binding write, then the audit log. *)
UseSchemaWrite(p) ==
    LET t == task[p]
        ext == t.stationName.external
        schemaDetails == t.newStation.schema
        SetSchema(st) == [st EXCEPT !.schema = schemaDetails]
    IN /\ ~crashed
       /\ t.pc = "hu_write"
       /\ UNCHANGED <<producers, consumers, tags, streams, published, started,
                      crashed>>
       /\ \/ /\ Fault
             /\ Step(p, Return(Abort(t, "500", StoreErr)))
             /\ UNCHANGED <<stations, auditLogs, applied>>
          \/ /\ stations' = IF FirstLiveEq(ext) = 0 THEN stations
                          ELSE [stations EXCEPT ![FirstLiveEq(ext)] = SetSchema(@)]
             /\ applied' = IF LiveEqIds(ext) = {} THEN applied
                           ELSE Append(applied, t.rid)
             /\ CreateAuditLogs(t.stationName.internal)
             /\ Step(p, [t EXCEPT !.pc = "hu_publish"])

(* Lines 1672-1682: generateSchemaUpdateInit and the publication.  When *)
(* the generation fails the handler returns at line 1675.               *)
UseSchemaPublish(p) ==
    LET t == task[p]
    IN /\ ~crashed
       /\ t.pc = "hu_publish"
       /\ UNCHANGED <<store, streams, applied, started, crashed>>
       /\ \/ /\ Fault
             /\ Step(p, Return(t))
             /\ UNCHANGED published
          \/ /\ UNCHANGED faults
             /\ published' = Append(published,
                    SchemaUpdate(t.stationName, t.rid, "init", t.newStation.schema.name))
             /\ Step(p, [t EXCEPT !.pc = "hu_station", !.names = Tail(@)])

(***************************************************************************)
(* StationsHandler.RemoveStation, the HTTP variant over a list of names.   *)
(***************************************************************************)
RemoveBody(stationNames) == [station_names |-> stationNames] @@ Plain("")

RemoveStationPayloads ==
    { RemoveBody(<<"a">>), RemoveBody(<<"A", "?">>), RemoveBody(<<"?", "a">>) }

RemoveStationHandler(p) ==
    \E req \in RemoveStationPayloads : Spawn(p, "RemoveStation", "hr_station", req)

(* Lines 811-834: the head of the loop over body.StationNames; after the *)
(* last name, the tombstones.                                            *)
RemoveStation(p) ==
    LET t == task[p]
        i == Len(t.stationNames) + 1
        name == t.req.station_names[i]
        sn == StationNameFromStr(name)
        found == IsStationExist(sn)
        t1 == [t EXCEPT !.stationNames = Append(@, sn.external),
                        !.stationName = sn]
    IN /\ ~crashed
       /\ t.pc = "hr_station"
       /\ UNCHANGED <<store, streams, published, applied, started, crashed>>
       /\ IF i > Len(t.req.station_names)
          THEN Step(p, [t EXCEPT !.pc = "hr_tomb"]) /\ UNCHANGED faults
          ELSE \/ /\ sn.err # NoErr
                  /\ Step(p, Return(Abort(t, "showable", sn.err)))
                  /\ UNCHANGED faults
               \/ /\ sn.err = NoErr
                  /\ Fault
                  /\ Step(p, Return(Abort(t1, "500", "Server error")))
               \/ /\ sn.err = NoErr
                  /\ UNCHANGED faults
                  /\ IF found.exist
                     THEN Step(p, [t1 EXCEPT !.pc = "rs_main", !.exist = TRUE,
                                             !.station = found.station])
                     ELSE Step(p, Return(Abort(t1, "showable",
                              "Station " \o name \o " does not exist")))

(* Lines 844-896: UpdateMany over the collected names, one audit log for *)
(* each name, whose failure is only logged, and the answer.  A missing   *)
(* user is answered 401 for each name, without a return.                 *)
RemoveStationTombstone(p) ==
    LET t == task[p]
        Logged(skip) ==
            [n \in DOMAIN auditLogs |->
                auditLogs[n] + Cardinality({i \in DOMAIN t.stationNames \ skip :
                                               t.stationNames[i] = n})]
        answered == IF t.req.actor THEN t
                    ELSE [t EXCEPT !.replies =
                             @ \o [i \in DOMAIN t.stationNames |-> "401 Unauthorized"]]
    IN /\ ~crashed
       /\ t.pc = "hr_tomb"
       /\ UNCHANGED <<streams, producers, consumers, tags, published, applied,
                      started, crashed>>
       /\ \/ /\ Fault
             /\ Step(p, Return(Abort(t, "500", "Server error")))
             /\ UNCHANGED <<stations, auditLogs>>
          \/ /\ stations' =
                   [i \in DOMAIN stations |->
                       IF i \in UNION {LiveIds(t.stationNames[k]) :
                                          k \in DOMAIN t.stationNames}
                       THEN Tombstone(stations[i]) ELSE stations[i]]
             /\ \/ auditLogs' = Logged({}) /\ UNCHANGED faults
                \/ /\ Fault
                   /\ \E k \in DOMAIN t.stationNames : auditLogs' = Logged({k})
             /\ Step(p, Return(respondOnGlobalAcc(answered, "200")))

(***************************************************************************)
(* StationsHandler.UpdateDlsConfig.  The body's poison and schemaverse are *)
(* the request's dls_configuration.                                        *)
(***************************************************************************)
DlsBody(station, poison, schemaverse) ==
    [Plain(station) EXCEPT
        !.dls_configuration = [poison |-> poison, schemaverse |-> schemaverse]]

DlsConfigPayloads ==
    { DlsBody("a", FALSE, TRUE), DlsBody("A", FALSE, TRUE),
      DlsBody("a", TRUE, FALSE), DlsBody("?", FALSE, FALSE) }

UpdateDlsConfigHandler(p) ==
    \E req \in DlsConfigPayloads : Spawn(p, "UpdateDlsConfig", "ud_check", req)

(* The document an upsert inserts when its filter matches nothing: the *)
(* name of the filter and the dls_configuration of the $set.           *)
UpsertedStation(name, dlsConfiguration) ==
    [NoStation EXCEPT !.name = name, !.dls_configuration = dlsConfiguration]

(* UpdateOne with SetUpsert(true) under {name, $or: [is_deleted false, *)
(* is_deleted absent]} and $set dls_configuration.                     *)
UpsertDlsConfiguration(name, dlsConfiguration) ==
    IF FirstLive(name) = 0
    THEN Append(stations, UpsertedStation(name, dlsConfiguration))
    ELSE [stations EXCEPT ![FirstLive(name)].dls_configuration = dlsConfiguration]

(* Lines 1978-2003 and 2004: canonicalize, IsStationExist, the comparison. *)
UpdateDlsConfig(p) ==
    LET t == task[p]
        sn == StationNameFromStr(t.req.station_name)
        found == IsStationExist(sn)
    IN /\ ~crashed
       /\ t.pc = "ud_check"
       /\ UNCHANGED <<store, streams, published, applied, started, crashed>>
       /\ \/ /\ sn.err # NoErr
             /\ Step(p, Return(Abort(t, "showable", sn.err)))
             /\ UNCHANGED faults
          \/ /\ sn.err = NoErr
             /\ Fault
             /\ Step(p, Return(Abort(t, "500", "Server error")))
          \/ /\ sn.err = NoErr
             /\ ~found.exist
             /\ Step(p, Return(Abort(t, "showable",
                    "Station " \o t.req.station_name \o " does not exist")))
             /\ UNCHANGED faults
          \/ /\ sn.err = NoErr
             /\ found.exist
             /\ UNCHANGED faults
             /\ IF stations[found.station].dls_configuration # t.req.dls_configuration
                THEN Step(p, [t EXCEPT !.pc = "ud_write", !.stationName = sn,
                                       !.exist = TRUE, !.station = found.station])
                ELSE Step(p, Return(respondOnGlobalAcc(
                        [t EXCEPT !.stationName = sn, !.exist = TRUE,
                                  !.station = found.station], "200")))

(* Lines 2005-2031: the upsert keyed by body.StationName, the response. *)
UpdateDlsConfigWrite(p) ==
    LET t == task[p]
    IN /\ ~crashed
       /\ t.pc = "ud_write"
       /\ UNCHANGED <<producers, consumers, tags, auditLogs, streams, published,
                      applied, started, crashed>>
       /\ \/ /\ Fault
             /\ Step(p, Return(Abort(t, "500", "Server error")))
             /\ UNCHANGED stations
          \/ /\ UNCHANGED faults
             /\ stations' = UpsertDlsConfiguration(t.req.station_name,
                                                   t.req.dls_configuration)
             /\ Step(p, Return(respondOnGlobalAcc(t, "200")))

(***************************************************************************)
(* Server.LaunchDlsForOldStations.  Its return value is kept where the     *)
(* handlers keep their replies.                                            *)
(***************************************************************************)
IsLive(st) == ~st.is_deleted

LiveNames ==
    LET live == SelectSeq(stations, IsLive)
    IN [i \in DOMAIN live |-> live[i].name]

LaunchDlsHandler(p) ==
    Spawn(p, "LaunchDlsForOldStations", "ld_find", Plain(""))

(* Lines 2034-2047: the non-deleted stations are read. *)
LaunchDlsForOldStations(p) ==
    LET t == task[p]
    IN /\ ~crashed
       /\ t.pc = "ld_find"
       /\ UNCHANGED <<store, streams, published, applied, started, crashed>>
       /\ \/ /\ Fault
             /\ Step(p, Return(respondOnGlobalAcc(t, StoreErr)))
          \/ /\ UNCHANGED faults
             /\ Step(p, [t EXCEPT !.pc = "ld_info", !.names = LiveNames])

(* Lines 2048-2056, 2084-2091: the next station and memphisStreamInfo of *)
(* its DLS stream, or nil after the last.                               *)
LaunchDlsStreamInfo(p) ==
    LET t == task[p]
        sn == StationNameFromStr(Head(t.names))
    IN /\ ~crashed
       /\ t.pc = "ld_info"
       /\ UNCHANGED <<store, streams, published, applied, started, crashed>>
       /\ \/ /\ t.names = <<>>
             /\ Step(p, Return(respondOnGlobalAcc(t, NoErr)))
             /\ UNCHANGED faults
          \/ /\ t.names # <<>>
             /\ sn.err # NoErr
             /\ Step(p, Return(respondOnGlobalAcc(t, sn.err)))
             /\ UNCHANGED faults
          \/ /\ t.names # <<>>
             /\ sn.err = NoErr
             /\ Fault
             /\ Step(p, Return(respondOnGlobalAcc(t, EngineErr)))
          \/ /\ t.names # <<>>
             /\ sn.err = NoErr
             /\ UNCHANGED faults
             /\ IF DlsStream(sn.internal) \in streams
                THEN Step(p, [t EXCEPT !.names = Tail(@)])
                ELSE Step(p, [t EXCEPT !.pc = "ld_update", !.stationName = sn])

(* Lines 2057-2077: the upsert keyed by station.Name. *)
LaunchDlsUpdate(p) ==
    LET t == task[p]
    IN /\ ~crashed
       /\ t.pc = "ld_update"
       /\ UNCHANGED <<producers, consumers, tags, auditLogs, streams, published,
                      applied, started, crashed>>
       /\ \/ /\ Fault
             /\ Step(p, Return(respondOnGlobalAcc(t, StoreErr)))
             /\ UNCHANGED stations
          \/ /\ UNCHANGED faults
             /\ stations' = UpsertDlsConfiguration(Head(t.names),
                                [poison |-> TRUE, schemaverse |-> TRUE])
             /\ Step(p, [t EXCEPT !.pc = "ld_dls"])

(* Lines 2078-2082: CreateDlsStream. *)
LaunchDlsCreate(p) ==
    LET t == task[p]
        name == DlsStream(t.stationName.internal)
    IN /\ ~crashed
       /\ t.pc = "ld_dls"
       /\ UNCHANGED <<store, published, applied, started, crashed>>
       /\ \/ /\ Fault
             /\ Step(p, Return(respondOnGlobalAcc(t, EngineErr)))
             /\ UNCHANGED streams
          \/ /\ UNCHANGED faults
             /\ streams' = streams \cup {name}
             /\ Step(p, [t EXCEPT !.pc = "ld_info", !.names = Tail(@),
                                  !.made = @ \cup {name}])

(***************************************************************************)
(* Producers and consumers are registered by their own create handlers, on *)
(* the live record of a station name.  A registration is taken here while  *)
(* no destroy task holds that record.                                      *)
(***************************************************************************)
Held(id) ==
    \E q \in Slots :
        /\ task[q].kind = "removeStation"
        /\ task[q].pc \notin {"idle", "done"}
        /\ task[q].station = id

Member(id) == [station_id |-> id, is_active |-> TRUE, is_deleted |-> FALSE]

createProducerDirect ==
    \E name \in RawNames :
        LET sn == StationNameFromStr(name)
            found == IsStationExist(sn)
        IN /\ ~crashed
           /\ sn.err = NoErr /\ found.exist /\ ~Held(found.station)
           /\ Len(producers) < MaxProducers
           /\ producers' = Append(producers, Member(found.station))
           /\ UNCHANGED <<stations, consumers, tags, auditLogs, streams,
                          published, applied, task, started, faults, crashed,
                          dlsVars>>

createConsumerDirect ==
    \E name \in RawNames :
        LET sn == StationNameFromStr(name)
            found == IsStationExist(sn)
        IN /\ ~crashed
           /\ sn.err = NoErr /\ found.exist /\ ~Held(found.station)
           /\ Len(consumers) < MaxConsumers
           /\ consumers' = Append(consumers, Member(found.station))
           /\ UNCHANGED <<stations, producers, tags, auditLogs, streams,
                          published, applied, task, started, faults, crashed,
                          dlsVars>>

(***************************************************************************)
(* The broker after construction: an empty store, an empty engine.         *)
(***************************************************************************)
AuditNames == {"a"}

Init ==
    /\ stations = <<>>
    /\ streams = {}
    /\ producers = <<>>
    /\ consumers = <<>>
    /\ tags = {}
    /\ auditLogs = [n \in AuditNames |-> 0]
    /\ published = <<>>
    /\ applied = <<>>
    /\ task = [p \in Slots |-> IdleTask]
    /\ started = 0
    /\ faults = 0
    /\ crashed = FALSE
    /\ dlsMsgs = {}
    /\ dlsSeq = 0
    /\ durables = {}
    /\ nuid = 0
    /\ resent = <<>>

(***************************************************************************)
(* The dead-letter inspector: AckPoisonMessages and ResendPoisonMessages.  *)
(* One station, a, has a DLS stream in this model.                         *)
(***************************************************************************)
MaxDlsMsgs == 3
MaxFetches == 2

CgNames == {"g1", "g2"}

(* A DLS message id, as strings.Split(id, dlsMsgSep) reads it. *)
DlsId(station, seq) == <<station, "poison", seq>>

DlsIds == {DlsId("a", 1), DlsId("a", 2)}

GetDlsSubject(kind, intern, id) == <<"$memphis_dls", intern, kind, id>>

HexEncode(data) == <<"hex", data>>
HexDecode(hexed) == hexed[2]

FormatUint(n) == ToString(n)

OriginalHeaders == ("$memphis_producedBy" :> "p1") @@ ("k" :> "v")

(* models.DlsMessage, the JSON body of a message of the DLS stream. *)
DlsMessage(id, cg) ==
    [ID |-> id, StationName |-> id[1], PoisonedCg |-> [CgName |-> cg],
     Message |-> [Headers |-> OriginalHeaders, Data |-> HexEncode("payload")]]

StoredMsg(id, cg, seq) ==
    [Subject |-> GetDlsSubject("poison", StationNameFromStr(id[1]).internal, id),
     Sequence |-> seq, Data |-> DlsMessage(id, cg)]

(* The engine routes a message a consumer group failed to acknowledge to *)
(* the DLS stream: one message per DLS id and consumer group.            *)
PoisonMessage ==
    \E id \in DlsIds, cg \in CgNames :
        /\ ~crashed
        /\ DlsStream(StationNameFromStr(id[1]).internal) \in streams
        /\ dlsSeq < MaxDlsMsgs
        /\ ~\E m \in dlsMsgs : m.Data = DlsMessage(id, cg)
        /\ dlsSeq' = dlsSeq + 1
        /\ dlsMsgs' = dlsMsgs \cup {StoredMsg(id, cg, dlsSeq + 1)}
        /\ UNCHANGED <<store, streams, published, applied, task, started,
                       faults, crashed, durables, nuid, resent>>

PoisonBody(ids) == [poison_message_ids |-> ids] @@ Plain("")

PoisonPayloads ==
    { PoisonBody(<<DlsId("a", 1)>>),
      PoisonBody(<<DlsId("a", 2), DlsId("a", 1)>>),
      PoisonBody(<<DlsId("?", 1)>>) }

(* The requests the bound on the unique ids leaves room for. *)
Fetchable ==
    {req \in PoisonPayloads : nuid + Len(req.poison_message_ids) <= MaxFetches}

AckPoisonMessagesHandler(p) ==
    \E req \in Fetchable : Spawn(p, "AckPoisonMessages", "pm_station", req)

ResendPoisonMessagesHandler(p) ==
    \E req \in Fetchable : Spawn(p, "ResendPoisonMessages", "pm_station", req)

ServerError(t) == Return(Abort(t, "500", "Server error"))

(* The head of the loop over body.PoisonMessageIds; after the last id, *)
(* lines 1264-1270 and 1404-1411.                                      *)
NextPoisonMessageId(t) ==
    IF t.ids = <<>> THEN Return(respondOnGlobalAcc(t, "200"))
    ELSE [t EXCEPT !.pc = "pm_info"]

(* The fetch of one id is over and its messages are processed. *)
EndOfId(t) ==
    NextPoisonMessageId(
        [t EXCEPT !.ids = Tail(@),
                  !.fetched = Append(@, [id |-> Head(t.ids),
                                         durable |-> t.durable,
                                         collected |-> {t.msgs[i].Sequence : i \in DOMAIN t.msgs},
                                         deleted |-> t.deleted,
                                         timedOut |-> t.timedOut])])

(* Lines 1165-1174 and 1279-1288: the station of the first id. *)
PoisonMessagesStation(p) ==
    LET t == task[p]
        splitId == t.req.poison_message_ids[1]
        sn == StationNameFromStr(splitId[1])
    IN /\ ~crashed
       /\ t.pc = "pm_station"
       /\ task' = [task EXCEPT ![p] =
                     IF sn.err # NoErr THEN ServerError(t)
                     ELSE NextPoisonMessageId(
                              [t EXCEPT !.stationName = sn,
                                        !.ids = t.req.poison_message_ids])]
       /\ UNCHANGED <<store, streams, published, applied, started, faults,
                      crashed, dlsVars>>

(* Lines 1176-1186 with a durable name that leaves out the unique id. *)
memphisStreamInfoFixedName(p) ==
    LET t == task[p]
        streamName == DlsStream(t.stationName.internal)
    IN /\ ~crashed
       /\ t.pc = "pm_info"
       /\ nuid' = nuid + 1
       /\ \/ /\ Fault
             /\ task' = [task EXCEPT ![p] = ServerError(t)]
          \/ /\ streamName \notin streams
             /\ UNCHANGED faults
             /\ task' = [task EXCEPT ![p] = ServerError(t)]
          \/ /\ streamName \in streams
             /\ UNCHANGED faults
             /\ task' = [task EXCEPT ![p] =
                           [t EXCEPT !.durable = 1,
                                     !.amount = Cardinality(dlsMsgs),
                                     !.msgs = <<>>, !.todo = <<>>,
                                     !.timedOut = FALSE, !.deleted = {},
                                     !.pc = "pm_consumer"]]
       /\ UNCHANGED <<store, streams, published, applied, started, crashed,
                      dlsMsgs, dlsSeq, durables, resent>>

(* Lines 1176-1186 with the error of memphisStreamInfo dropped: a *)
(* missing stream reads as an empty one.                          *)
memphisStreamInfoNoCheck(p) ==
    LET t == task[p]
        streamName == DlsStream(t.stationName.internal)
    IN /\ ~crashed
       /\ t.pc = "pm_info"
       /\ nuid' = nuid + 1
       /\ UNCHANGED faults
       /\ task' = [task EXCEPT ![p] =
                     [t EXCEPT !.durable = nuid + 1,
                               !.amount = IF streamName \in streams
                                          THEN Cardinality(dlsMsgs) ELSE 0,
                               !.msgs = <<>>, !.todo = <<>>,
                               !.timedOut = FALSE, !.deleted = {},
                               !.pc = "pm_consumer"]]
       /\ UNCHANGED <<store, streams, published, applied, started, crashed,
                      dlsMsgs, dlsSeq, durables, resent>>

(* Lines 1176-1186 and 1290-1300: a new durable name, the size of the *)
(* stream.                                                            *)
memphisStreamInfo(p) ==
    LET t == task[p]
        streamName == DlsStream(t.stationName.internal)
    IN /\ ~crashed
       /\ t.pc = "pm_info"
       /\ nuid' = nuid + 1
       /\ \/ /\ Fault
             /\ task' = [task EXCEPT ![p] = ServerError(t)]
          \/ /\ streamName \notin streams
             /\ UNCHANGED faults
             /\ task' = [task EXCEPT ![p] = ServerError(t)]
          \/ /\ streamName \in streams
             /\ UNCHANGED faults
             /\ task' = [task EXCEPT ![p] =
                           [t EXCEPT !.durable = nuid + 1,
                                     !.amount = Cardinality(dlsMsgs),
                                     !.msgs = <<>>, !.todo = <<>>,
                                     !.timedOut = FALSE, !.deleted = {},
                                     !.pc = "pm_consumer"]]
       /\ UNCHANGED <<store, streams, published, applied, started, crashed,
                      dlsMsgs, dlsSeq, durables, resent>>

(* Lines 1187-1200 and 1301-1314. *)
memphisAddConsumer(p) ==
    LET t == task[p]
        streamName == DlsStream(t.stationName.internal)
        cc == [Durable |-> t.durable,
               FilterSubject |-> GetDlsSubject("poison", t.stationName.internal,
                                               Head(t.ids))]
    IN /\ ~crashed
       /\ t.pc = "pm_consumer"
       /\ \/ /\ Fault
             /\ task' = [task EXCEPT ![p] = ServerError(t)]
             /\ UNCHANGED durables
          \/ /\ streamName \notin streams
             /\ UNCHANGED <<faults, durables>>
             /\ task' = [task EXCEPT ![p] = ServerError(t)]
          \/ /\ streamName \in streams
             /\ UNCHANGED faults
             /\ durables' = durables \cup {cc}
             /\ task' = [task EXCEPT ![p] = [t EXCEPT !.pc = "pm_subscribe"]]
       /\ UNCHANGED <<store, streams, published, applied, started, crashed,
                      dlsMsgs, dlsSeq, nuid, resent>>

(* Lines 1202-1233 and 1316-1347: the subscription to the reply subject, *)
(* the request for amount messages, the timer.                           *)
subscribeOnGlobalAcc(p) ==
    LET t == task[p]
    IN /\ ~crashed
       /\ t.pc = "pm_subscribe"
       /\ \/ /\ Fault
             /\ task' = [task EXCEPT ![p] = ServerError(t)]
          \/ /\ UNCHANGED faults
             /\ task' = [task EXCEPT ![p] =
                           [t EXCEPT !.pc = IF t.amount = 0 THEN "pm_cleanup"
                                            ELSE "pm_loop"]]
       /\ UNCHANGED <<store, streams, published, applied, started, crashed,
                      dlsVars>>

(* The messages the durable consumer t.durable has still to deliver. *)
Pending(t) ==
    {m \in dlsMsgs :
        /\ \E cc \in durables :
              cc.Durable = t.durable /\ cc.FilterSubject = m.Subject
        /\ \A i \in DOMAIN t.msgs : t.msgs[i] # m}

(* Lines 1234-1241 and 1348-1355, case msg := <-responseChan: a message *)
(* of the filter subject is delivered, acknowledged and collected.      *)
FetchReceive(p) ==
    LET t == task[p]
    IN /\ ~crashed
       /\ t.pc = "pm_loop"
       /\ \E m \in Pending(t) :
             LET msgs == Append(t.msgs, m)
             IN task' = [task EXCEPT ![p] =
                           [t EXCEPT !.msgs = msgs,
                                     !.pc = IF Len(msgs) = t.amount
                                            THEN "pm_cleanup" ELSE "pm_loop"]]
       /\ UNCHANGED <<store, streams, published, applied, started, faults,
                      crashed, dlsVars>>

(* The fetch with the tasks its subscription callback starts, one for  *)
(* each message the consumer delivers: lines 1207-1224 and 1321-1338.  *)
(* A task acknowledges on the reply subject of the delivery and then   *)
(* sends the message on responseChan, which has no buffer.             *)
Delivery(durable, m, pc) == [durable |-> durable, msg |-> m, pc |-> pc]

(* Lines 1207-1208: the consumer delivers one of the amount messages it *)
(* was asked for and the callback starts its task.  The subscription    *)
(* lasts until the cleanup.                                             *)
DeliverMsg(p) ==
    LET t == task[p]
        mine == {d \in t.deliveries : d.durable = t.durable}
    IN /\ ~crashed
       /\ t.kind \in {"AckPoisonMessages", "ResendPoisonMessages"}
       /\ t.pc \in {"pm_loop", "pm_cleanup"}
       /\ Cardinality(mine) < t.amount
       /\ \E m \in Pending(t) :
             /\ \A d \in mine : d.msg # m
             /\ task' = [task EXCEPT ![p].deliveries =
                            @ \cup {Delivery(t.durable, m, "ack")}]
       /\ UNCHANGED <<store, streams, published, applied, started, faults,
                      crashed, dlsVars>>

(* Lines 1209-1216: the acknowledgement. *)
DeliveryAck(p) ==
    LET t == task[p]
    IN /\ ~crashed
       /\ \E d \in t.deliveries :
             /\ d.pc = "ack"
             /\ task' = [task EXCEPT ![p].deliveries =
                            (@ \ {d}) \cup {Delivery(d.durable, d.msg, "send")}]
       /\ UNCHANGED <<store, streams, published, applied, started, faults,
                      crashed, dlsVars>>

(* Lines 1218-1223 with 1239-1240: the send of a task meets the receive *)
(* of the loop.                                                         *)
DeliveryReceive(p) ==
    LET t == task[p]
    IN /\ ~crashed
       /\ t.pc = "pm_loop"
       /\ \E d \in t.deliveries :
             /\ d.pc = "send"
             /\ d.durable = t.durable
             /\ LET msgs == Append(t.msgs, d.msg)
                IN task' = [task EXCEPT ![p] =
                              [t EXCEPT !.msgs = msgs,
                                        !.deliveries = (@ \ {d}) \cup
                                            {Delivery(d.durable, d.msg, "done")},
                                        !.pc = IF Len(msgs) = t.amount
                                               THEN "pm_cleanup" ELSE "pm_loop"]]
       /\ UNCHANGED <<store, streams, published, applied, started, faults,
                      crashed, dlsVars>>

(* Lines 1236-1237 and 1350-1351, case <-timer.C. *)
FetchTimer(p) ==
    LET t == task[p]
    IN /\ ~crashed
       /\ t.pc = "pm_loop"
       /\ task' = [task EXCEPT ![p] =
                     [t EXCEPT !.timedOut = TRUE, !.pc = "pm_cleanup"]]
       /\ UNCHANGED <<store, streams, published, applied, started, faults,
                      crashed, dlsVars>>

(* Lines 1243-1252 and 1357-1366. *)
memphisRemoveConsumer(p) ==
    LET t == task[p]
        collected == [t EXCEPT !.todo = t.msgs, !.pc = "pm_process"]
    IN /\ ~crashed
       /\ t.pc = "pm_cleanup"
       /\ \/ /\ Fault
             /\ task' = [task EXCEPT ![p] = ServerError(t)]
             /\ UNCHANGED durables
          \/ /\ UNCHANGED faults
             /\ durables' = {cc \in durables : cc.Durable # t.durable}
             /\ task' = [task EXCEPT ![p] =
                           IF t.msgs = <<>> THEN EndOfId(collected)
                           ELSE collected]
       /\ UNCHANGED <<store, streams, published, applied, started, crashed,
                      dlsMsgs, dlsSeq, nuid, resent>>

(* The step after one message of the fetch was processed. *)
Processed(t) ==
    IF t.todo = <<>> THEN EndOfId(t) ELSE t

(* Lines 1254-1261 with a loop that is left after its first turn. *)
memphisDeleteFirstMsgOnly(p) ==
    LET t == task[p]
        msg == Head(t.todo)
    IN /\ ~crashed
       /\ t.kind = "AckPoisonMessages"
       /\ t.pc = "pm_process"
       /\ \/ /\ Fault
             /\ task' = [task EXCEPT ![p] = ServerError(t)]
             /\ UNCHANGED dlsMsgs
          \/ /\ msg \notin dlsMsgs
             /\ UNCHANGED <<faults, dlsMsgs>>
             /\ task' = [task EXCEPT ![p] = ServerError(t)]
          \/ /\ msg \in dlsMsgs
             /\ UNCHANGED faults
             /\ dlsMsgs' = dlsMsgs \ {msg}
             /\ task' = [task EXCEPT ![p] =
                           Processed([t EXCEPT !.todo = <<>>,
                                               !.deleted = @ \cup {msg.Sequence}])]
       /\ UNCHANGED <<store, streams, published, applied, started, crashed,
                      dlsSeq, durables, nuid, resent>>

(* AckPoisonMessages, lines 1254-1261: one turn of the loop over msgs. *)
memphisDeleteMsgFromStream(p) ==
    LET t == task[p]
        msg == Head(t.todo)
    IN /\ ~crashed
       /\ t.kind = "AckPoisonMessages"
       /\ t.pc = "pm_process"
       /\ \/ /\ Fault
             /\ task' = [task EXCEPT ![p] = ServerError(t)]
             /\ UNCHANGED dlsMsgs
          \/ /\ msg \notin dlsMsgs
             /\ UNCHANGED <<faults, dlsMsgs>>
             /\ task' = [task EXCEPT ![p] = ServerError(t)]
          \/ /\ msg \in dlsMsgs
             /\ UNCHANGED faults
             /\ dlsMsgs' = dlsMsgs \ {msg}
             /\ task' = [task EXCEPT ![p] =
                           Processed([t EXCEPT !.todo = Tail(@),
                                               !.deleted = @ \cup {msg.Sequence}])]
       /\ UNCHANGED <<store, streams, published, applied, started, crashed,
                      dlsSeq, durables, nuid, resent>>

(* Lines 1369-1395 without the copy of dlsMsg.Message.Headers. *)
ResentNoOriginalHeaders(msg) ==
    LET dlsMsg == msg.Data
        stationName == replaceDelimiters(dlsMsg.StationName)
        cgName == replaceDelimiters(dlsMsg.PoisonedCg.CgName)
    IN [subject |-> <<"$memphis_dls", stationName, cgName>>,
        data |-> HexDecode(dlsMsg.Message.Data),
        headers |-> ("$memphis_pm_sequence" :> FormatUint(msg.Sequence))
                        @@ ("$memphis_pm_id" :> dlsMsg.ID)]

(* Lines 1369-1395: the subject, the headers and the data of the message *)
(* that is published again.                                              *)
Resent(msg) ==
    LET dlsMsg == msg.Data
        stationName == replaceDelimiters(dlsMsg.StationName)
        cgName == replaceDelimiters(dlsMsg.PoisonedCg.CgName)
    IN [subject |-> <<"$memphis_dls", stationName, cgName>>,
        data |-> HexDecode(dlsMsg.Message.Data),
        headers |-> ("$memphis_pm_sequence" :> FormatUint(msg.Sequence))
                        @@ ("$memphis_pm_id" :> dlsMsg.ID)
                        @@ dlsMsg.Message.Headers]

(* ResendPoisonMessages, lines 1368-1402: one turn of the loop over msgs. *)
ResendPoisonMessage(p) ==
    LET t == task[p]
        msg == Head(t.todo)
    IN /\ ~crashed
       /\ t.kind = "ResendPoisonMessages"
       /\ t.pc = "pm_process"
       /\ \/ /\ Fault
             /\ task' = [task EXCEPT ![p] = ServerError(t)]
             /\ UNCHANGED resent
          \/ /\ UNCHANGED faults
             /\ resent' = Append(resent, [durable |-> t.durable] @@ Resent(msg))
             /\ task' = [task EXCEPT ![p] = Processed([t EXCEPT !.todo = Tail(@)])]
       /\ UNCHANGED <<store, streams, published, applied, started, crashed,
                      dlsMsgs, dlsSeq, durables, nuid>>

InspectorKinds == {"AckPoisonMessages", "ResendPoisonMessages"}

InspectorStep(p) ==
    \/ PoisonMessagesStation(p)
    \/ memphisStreamInfo(p)
    \/ memphisAddConsumer(p)
    \/ subscribeOnGlobalAcc(p)
    \/ FetchReceive(p)
    \/ FetchTimer(p)
    \/ memphisRemoveConsumer(p)
    \/ memphisDeleteMsgFromStream(p)
    \/ ResendPoisonMessage(p)

Inspector(p) ==
    \/ AckPoisonMessagesHandler(p)
    \/ ResendPoisonMessagesHandler(p)
    \/ InspectorStep(p)

(***************************************************************************)
(* The message journey: getCgStatus, GetDlsMessageJourneyDetails and       *)
(* GetPoisonMessageJourney.  GetDlsMsgsByStationFull,                      *)
(* GetPoisonedCgsByMessage, GetConsumerGroupMembers, GetCgInfo and         *)
(* GetTotalPoisonMsgsByCg are collaborators: what they return is drawn     *)
(* from the sets below.  The pending counts and the poison totals they     *)
(* report are copied into the answer unread and are left out.              *)
(***************************************************************************)
MaxMembers == 3
MaxCgs == 3

CgMember(isActive, isDeleted) == [IsActive |-> isActive, IsDeleted |-> isDeleted]

CgMembers == {CgMember(a, d) : a \in BOOLEAN, d \in BOOLEAN}

SeqsUpTo(S, n) == UNION {[1..k -> S] : k \in 0..n}

MemberLists == SeqsUpTo(CgMembers, MaxMembers)

(* Lines 1024-1041: the loop over the members, then the comparison. *)
RECURSIVE getCgStatusLoop(_, _, _)
getCgStatusLoop(members, i, deletedCount) ==
    IF i > Len(members)
    THEN IF Len(members) = deletedCount THEN <<FALSE, TRUE>> ELSE <<FALSE, FALSE>>
    ELSE IF members[i].IsActive THEN <<TRUE, FALSE>>
    ELSE getCgStatusLoop(members, i + 1,
             IF members[i].IsDeleted THEN deletedCount + 1 ELSE deletedCount)

getCgStatus(members) == getCgStatusLoop(members, 1, 0)

(* A call of getCgStatus on its own: the members and the two results. *)
getCgStatusCall(p) ==
    \E members \in MemberLists :
        /\ ~crashed
        /\ task[p].pc = "idle"
        /\ \A q \in Slots : task[q].pc = "idle"
        /\ task' = [task EXCEPT ![p] =
               [IdleTask EXCEPT !.pc = "done", !.kind = "getCgStatus",
                                !.cgMembers = members,
                                !.isActive = getCgStatus(members)[1],
                                !.isDeleted = getCgStatus(members)[2]]]
        /\ UNCHANGED <<store, streams, published, applied, started, faults,
                       crashed, dlsVars>>

(* strings.HasPrefix. *)
HasPrefix(s, prefix) ==
    Len(s) >= Len(prefix) /\ SubSeq(s, 1, Len(prefix)) = prefix

HeaderNames == {"$memphis_producedBy", "$memphis_pm_id", "producedBy"}

HeaderSets == {[h \in H |-> "v"] : H \in SUBSET HeaderNames}

(* Lines 1068-1073: the headers beginning with $memphis are deleted. *)
StripMemphisHeaders(headersJson) ==
    [header \in {h \in DOMAIN headersJson : ~HasPrefix(h, "$memphis")} |->
        headersJson[header]]

(* A DLS id with its kind, as strings.Split(id, dlsMsgSep) reads it.  The *)
(* ids hold no blank, and their third part is a number.                  *)
JourneyIds ==
    {<<"a", "poison", 1>>, <<"a", "schema", 1>>, <<"A", "poison", 2>>,
     <<"?", "poison", 1>>}

JourneyBody(id) == [message_id |-> id] @@ Plain("")

(* models.DlsMessageResponse. *)
DlsMessageResponse(id, headers) ==
    [ID |-> id, Headers |-> headers, PoisonedCgs |-> <<>>]

NoDlsMessage == DlsMessageResponse(<<>>, <<>>)

(* What GetDlsMsgsByStationFull returns for a station: a message is in the *)
(* bucket of its kind, after one other message of the station.             *)
PoisonedBuckets(id) ==
    {<<DlsMessageResponse(<<"a", "poison", 9>>, [h \in HeaderNames |-> "v"])>>}
    \cup (IF id[2] # "poison" THEN {}
          ELSE {<<DlsMessageResponse(<<"a", "poison", 9>>, [h \in HeaderNames |-> "v"]),
                  DlsMessageResponse(id, hs)>> : hs \in HeaderSets})

SchemaFailedBuckets(id) ==
    {<<>>}
    \cup (IF id[2] # "schema" THEN {}
          ELSE {<<DlsMessageResponse(id, hs)>> : hs \in HeaderSets})

(* The first message of a bucket with the id, if any. *)
IndexById(bucket, id) ==
    IF \E i \in DOMAIN bucket : bucket[i].ID = id
    THEN Min({i \in DOMAIN bucket : bucket[i].ID = id})
    ELSE 0

(* Lines 1064-1086: the poison bucket first, its message stripped; then *)
(* the schemaverse-failed bucket.                                        *)
FindDlsMessage(poisoned, schemaFailed, dlsMsgId) ==
    IF IndexById(poisoned, dlsMsgId) # 0
    THEN [poisoned[IndexById(poisoned, dlsMsgId)] EXCEPT
             !.Headers = StripMemphisHeaders(@)]
    ELSE IF IndexById(schemaFailed, dlsMsgId) # 0
    THEN schemaFailed[IndexById(schemaFailed, dlsMsgId)]
    ELSE NoDlsMessage

PoisoningTimes == {1, 2}

PoisonedCg(name, time) == [CgName |-> name, PoisoningTime |-> time]

(* What GetPoisonedCgsByMessage returns. *)
PoisonedCgLists ==
    SeqsUpTo({PoisonedCg(n, t) : n \in CgNames, t \in PoisoningTimes}, MaxCgs)

(* Lines 1097-1099: sort.Slice with PoisoningTime.After as less.  The sort *)
(* is not stable: any order of the same entries that has no entry before  *)
(* a newer one may come out.                                              *)
IsPermutation(a, b) ==
    /\ Len(a) = Len(b)
    /\ \A x \in Range(a) :
          Cardinality({i \in DOMAIN a : a[i] = x})
             = Cardinality({i \in DOMAIN b : b[i] = x})

SortedNewestFirst(poisonedCgs) ==
    {sorted \in [DOMAIN poisonedCgs -> Range(poisonedCgs)] :
        /\ IsPermutation(poisonedCgs, sorted)
        /\ \A i, j \in DOMAIN sorted :
              i < j => sorted[i].PoisoningTime >= sorted[j].PoisoningTime}

(* Lines 1100-1105 with the cgCheck test left out. *)
RECURSIVE KeepAll(_, _)
KeepAll(sorted, cgCheck) ==
    IF sorted = <<>> THEN <<>>
    ELSE <<Head(sorted)>> \o KeepAll(Tail(sorted), cgCheck)

(* Lines 1100-1105: a name seen before is skipped. *)
RECURSIVE Deduplicate(_, _)
Deduplicate(sorted, cgCheck) ==
    IF sorted = <<>> THEN <<>>
    ELSE IF Head(sorted).CgName \in cgCheck
    THEN Deduplicate(Tail(sorted), cgCheck)
    ELSE <<Head(sorted)>>
         \o Deduplicate(Tail(sorted), cgCheck \cup {Head(sorted).CgName})

(* What GetConsumerGroupMembers returns in the journey: the consumer of *)
(* the group.                                                           *)
JourneyMembers == {members \in MemberLists : Len(members) = 1}

(* Lines 1106-1128: the members and the status of a group. *)
EnrichedCg(cg, cgMembers) ==
    [CgName |-> cg.CgName, PoisoningTime |-> cg.PoisoningTime,
     CgMembers |-> cgMembers,
     IsActive |-> getCgStatus(cgMembers)[1],
     IsDeleted |-> getCgStatus(cgMembers)[2]]

GetPoisonMessageJourneyHandler(p) ==
    \E id \in JourneyIds :
        Spawn(p, "GetPoisonMessageJourney", "jd_station", JourneyBody(id))

(* Lines 1136-1147 and 1043-1059: the station of the id. *)
GetPoisonMessageJourney(p) ==
    LET t == task[p]
        sn == StationNameFromStr(t.req.message_id[1])
        found == IsStationExist(sn)
    IN /\ ~crashed
       /\ t.pc = "jd_station"
       /\ UNCHANGED <<store, streams, published, applied, started, crashed>>
       /\ \/ /\ sn.err # NoErr
             /\ Step(p, Return(Abort(t, "500", "Server error")))
             /\ UNCHANGED faults
          \/ /\ sn.err = NoErr
             /\ Fault
             /\ Step(p, Return(Abort(t, "500", "Server error")))
          \/ /\ sn.err = NoErr
             /\ UNCHANGED faults
             /\ IF found.exist
                THEN Step(p, [t EXCEPT !.pc = "jd_message", !.stationName = sn,
                                       !.exist = TRUE, !.station = found.station])
                ELSE Step(p, Return(Abort(t, "500", "Server error")))

(* Lines 1061-1086: GetDlsMsgsByStationFull and the message of the id. *)
GetDlsMessageJourneyDetails(p) ==
    LET t == task[p]
        id == t.req.message_id
    IN /\ ~crashed
       /\ t.pc = "jd_message"
       /\ UNCHANGED <<store, streams, published, applied, started, crashed>>
       /\ \/ /\ Fault
             /\ Step(p, Return(Abort(t, "500", "Server error")))
          \/ /\ UNCHANGED faults
             /\ \E poisoned \in PoisonedBuckets(id),
                   schemaFailed \in SchemaFailedBuckets(id) :
                   Step(p, [t EXCEPT
                       !.pc = "jd_cgs",
                       !.poisoned = poisoned,
                       !.schemaFailed = schemaFailed,
                       !.dlsMessage = FindDlsMessage(poisoned, schemaFailed, id)])

(* Lines 1087-1095: strconv.Atoi and GetPoisonedCgsByMessage. *)
GetPoisonedCgsByMessage(p) ==
    LET t == task[p]
    IN /\ ~crashed
       /\ t.pc = "jd_cgs"
       /\ UNCHANGED <<store, streams, published, applied, started, crashed>>
       /\ \/ /\ Fault
             /\ Step(p, Return(Abort(t, "500", "Server error")))
          \/ /\ UNCHANGED faults
             /\ \E poisonedCgs \in PoisonedCgLists :
                   Step(p, [t EXCEPT !.pc = "jd_sort", !.poisonedCgs = poisonedCgs])

(* Lines 1096-1134 and 1148-1157: the sort, the loop over the groups and *)
(* the response.                                                         *)
GetPoisonedCgs(p) ==
    LET t == task[p]
    IN /\ ~crashed
       /\ t.pc = "jd_sort"
       /\ UNCHANGED <<store, streams, published, applied, started, crashed>>
       /\ \/ /\ t.poisonedCgs # <<>>
             /\ Fault
             /\ Step(p, Return(Abort(t, "500", "Server error")))
          \/ /\ UNCHANGED faults
             /\ \E sorted \in SortedNewestFirst(t.poisonedCgs),
                   membersOf \in [{cg.CgName : cg \in Range(t.poisonedCgs)}
                                     -> JourneyMembers] :
                   LET kept == Deduplicate(sorted, {})
                       cgs == [i \in DOMAIN kept |->
                                  EnrichedCg(kept[i], membersOf[kept[i].CgName])]
                   IN Step(p, Return(respondOnGlobalAcc(
                          [t EXCEPT !.dlsMessage.PoisonedCgs = cgs], "200")))

(***************************************************************************)
(* StationsHandler.GetMessageDetails.  GetMessage, DecodeHeader,           *)
(* GetPoisonedCgsByMessage, the producers collection and IsConnectionExist *)
(* are collaborators: the message and the groups are drawn from the sets   *)
(* below, and the lookups made are kept in the task.                       *)
(***************************************************************************)
UpgradeSdkErr ==
    "Error while getting notified about a poison message: Missing mandatory message headers, please upgrade the SDK version you are using"

(* headersJson[key]: the value, or the empty string for a missing key. *)
HeaderValue(headersJson, key) ==
    IF key \in DOMAIN headersJson THEN headersJson[key] ELSE ""

(* The headers of a stored message: each of the four producer headers is *)
(* missing, empty or set.                                                *)
ProducerHeaders ==
    {"$memphis_connectionId", "$memphis_producedBy", "connectionId", "producedBy"}

ProducerHeaderValue(key) ==
    CASE key = "$memphis_connectionId" -> "c1"
      [] key = "$memphis_producedBy" -> "P1"
      [] key = "connectionId" -> "c2"
      [] key = "producedBy" -> "p2"

MessageHeaders ==
    UNION {[H -> {"", "set"}] : H \in SUBSET ProducerHeaders}

StoredHeader(marks) ==
    [key \in DOMAIN marks |->
        IF marks[key] = "" THEN "" ELSE ProducerHeaderValue(key)]

(* Lines 1489-1501 with "and" in place of "or" in the first test. *)
SelectProducerBothMissing(headersJson) ==
    LET connectionIdHeader == HeaderValue(headersJson, "$memphis_connectionId")
        producedByHeader == ToLower(HeaderValue(headersJson, "$memphis_producedBy"))
        legacyConnectionId == HeaderValue(headersJson, "connectionId")
        legacyProducedBy == ToLower(HeaderValue(headersJson, "producedBy"))
    IN IF connectionIdHeader = "" /\ producedByHeader = ""
       THEN IF legacyConnectionId = "" \/ legacyProducedBy = ""
            THEN [err |-> UpgradeSdkErr, connectionIdHeader |-> legacyConnectionId,
                  producedByHeader |-> legacyProducedBy]
            ELSE [err |-> NoErr, connectionIdHeader |-> legacyConnectionId,
                  producedByHeader |-> legacyProducedBy]
       ELSE [err |-> NoErr, connectionIdHeader |-> connectionIdHeader,
             producedByHeader |-> producedByHeader]

(* Lines 1489-1501: the two $memphis headers, else the two legacy ones, *)
(* else the error.                                                      *)
SelectProducer(headersJson) ==
    LET connectionIdHeader == HeaderValue(headersJson, "$memphis_connectionId")
        producedByHeader == ToLower(HeaderValue(headersJson, "$memphis_producedBy"))
        legacyConnectionId == HeaderValue(headersJson, "connectionId")
        legacyProducedBy == ToLower(HeaderValue(headersJson, "producedBy"))
    IN IF connectionIdHeader = "" \/ producedByHeader = ""
       THEN IF legacyConnectionId = "" \/ legacyProducedBy = ""
            THEN [err |-> UpgradeSdkErr, connectionIdHeader |-> legacyConnectionId,
                  producedByHeader |-> legacyProducedBy]
            ELSE [err |-> NoErr, connectionIdHeader |-> legacyConnectionId,
                  producedByHeader |-> legacyProducedBy]
       ELSE [err |-> NoErr, connectionIdHeader |-> connectionIdHeader,
             producedByHeader |-> producedByHeader]

DetailsBody(station, isPoison) ==
    [message_id |-> <<"a", "poison", 1>>, message_seq |-> 1,
     is_poison_message |-> isPoison] @@ Plain(station)

MessageDetailsPayloads ==
    {DetailsBody("A", FALSE), DetailsBody("?", FALSE), DetailsBody("a", TRUE)}

GetMessageDetailsHandler(p) ==
    \E req \in MessageDetailsPayloads :
        Spawn(p, "GetMessageDetails",
              IF req.is_poison_message THEN "jd_station" ELSE "md_station", req)

(* Lines 1433-1451: the station.  A store error leaves exist false and is *)
(* answered like a missing station.                                      *)
GetMessageDetails(p) ==
    LET t == task[p]
        sn == StationNameFromStr(t.req.station_name)
        found == IsStationExist(sn)
    IN /\ ~crashed
       /\ t.pc = "md_station"
       /\ UNCHANGED <<store, streams, published, applied, started, crashed>>
       /\ \/ /\ sn.err # NoErr
             /\ Step(p, Return(Abort(t, "showable", sn.err)))
             /\ UNCHANGED faults
          \/ /\ sn.err = NoErr
             /\ Fault
             /\ Step(p, Return(Abort(t, "showable",
                    "Station " \o sn.external \o " does not exist")))
          \/ /\ sn.err = NoErr
             /\ UNCHANGED faults
             /\ IF found.exist
                THEN Step(p, [t EXCEPT !.pc = "md_message", !.stationName = sn,
                                       !.exist = TRUE, !.station = found.station])
                ELSE Step(p, Return(Abort(t, "showable",
                         "Station " \o sn.external \o " does not exist")))

(* Lines 1453-1508: GetMessage, the non-native answer, DecodeHeader, the *)
(* producer headers and the deletion of the $memphis headers.            *)
GetMessage(p) ==
    LET t == task[p]
    IN /\ ~crashed
       /\ t.pc = "md_message"
       /\ UNCHANGED <<store, streams, published, applied, started, crashed>>
       /\ \/ /\ Fault
             /\ Step(p, Return(Abort(t, "500", "Server error")))
          \/ /\ UNCHANGED faults
             /\ \E marks \in MessageHeaders :
                   LET sm == [Header |-> StoredHeader(marks),
                              Sequence |-> t.req.message_seq]
                       chosen == SelectProducer(sm.Header)
                       t1 == [t EXCEPT !.sm = sm]
                   IN IF ~stations[t.station].is_native
                      THEN Step(p, Return(respondOnGlobalAcc(t1, "200")))
                      ELSE IF chosen.err # NoErr
                      THEN Step(p, Return(Abort(t1, "showable", chosen.err)))
                      ELSE Step(p, [t1 EXCEPT
                               !.pc = "md_cgs",
                               !.msg.Headers = StripMemphisHeaders(sm.Header),
                               !.msg.Producer =
                                   [Name |-> chosen.producedByHeader,
                                    ConnectionId |-> chosen.connectionIdHeader]])

(* Lines 1510-1543: GetPoisonedCgsByMessage and the loop over the groups. *)
GetMessagePoisonedCgs(p) ==
    LET t == task[p]
        asked == [op |-> "GetPoisonedCgsByMessage",
                  name |-> t.msg.Producer.Name,
                  connection_id |-> t.msg.Producer.ConnectionId]
        t1 == [t EXCEPT !.lookups = Append(@, asked)]
    IN /\ ~crashed
       /\ t.pc = "md_cgs"
       /\ UNCHANGED <<store, streams, published, applied, started, crashed>>
       /\ \/ /\ Fault
             /\ Step(p, Return(Abort(t1, "500", "Server error")))
          \/ /\ UNCHANGED faults
             /\ \E poisonedCgs \in PoisonedCgLists,
                   membersOf \in [CgNames -> JourneyMembers] :
                   Step(p, [t1 EXCEPT
                       !.pc = "md_producer",
                       !.poisonedCgs =
                           [i \in DOMAIN poisonedCgs |->
                               EnrichedCg(poisonedCgs[i],
                                          membersOf[poisonedCgs[i].CgName])]])

(* Lines 1545-1588: the producer, the connection, the sort and the answer. *)
GetMessageProducer(p) ==
    LET t == task[p]
        filter == [op |-> "producersCollection.FindOne",
                   name |-> t.msg.Producer.Name,
                   connection_id |-> t.msg.Producer.ConnectionId]
        conn == [op |-> "IsConnectionExist", name |-> "",
                 connection_id |-> t.msg.Producer.ConnectionId]
    IN /\ ~crashed
       /\ t.pc = "md_producer"
       /\ UNCHANGED <<store, streams, published, applied, started, crashed>>
       /\ \/ /\ Fault
             /\ \E made \in {<<filter>>, <<filter, conn>>} :
                   Step(p, Return(Abort([t EXCEPT !.lookups = @ \o made],
                                        "500", "Server error")))
          \/ /\ UNCHANGED faults
             /\ \E sorted \in SortedNewestFirst(t.poisonedCgs) :
                   Step(p, Return(respondOnGlobalAcc(
                       [t EXCEPT !.lookups = @ \o <<filter, conn>>,
                                 !.msg.PoisonedCgs = sorted], "200")))

MessageDetails(p) ==
    \/ GetMessageDetailsHandler(p)
    \/ GetMessageDetails(p)
    \/ GetMessage(p)
    \/ GetMessagePoisonedCgs(p)
    \/ GetMessageProducer(p)

Journey(p) ==
    \/ GetPoisonMessageJourneyHandler(p)
    \/ GetPoisonMessageJourney(p)
    \/ GetDlsMessageJourneyDetails(p)
    \/ GetPoisonedCgsByMessage(p)
    \/ GetPoisonedCgs(p)
    \/ getCgStatusCall(p)

Handler(p) ==
    \/ UseSchemaHandler(p)
    \/ UseSchema(p)
    \/ UseSchemaStation(p)
    \/ UseSchemaWrite(p)
    \/ UseSchemaPublish(p)
    \/ UpdateDlsConfigHandler(p)
    \/ UpdateDlsConfig(p)
    \/ UpdateDlsConfigWrite(p)
    \/ LaunchDlsHandler(p)
    \/ LaunchDlsForOldStations(p)
    \/ LaunchDlsStreamInfo(p)
    \/ LaunchDlsUpdate(p)
    \/ LaunchDlsCreate(p)
    \/ createStationHandler(p)
    \/ createStationDirect(p)
    \/ createStationSchema(p)
    \/ createStationStream(p)
    \/ createStationDls(p)
    \/ createStationInsert(p)
    \/ destroyStationHandler(p)
    \/ removeStationDirect(p)
    \/ removeStationMainStream(p)
    \/ removeStationDlsStream(p)
    \/ removeStationProducers(p)
    \/ removeStationConsumers(p)
    \/ removeStationTombstone(p)
    \/ attachSchemaHandler(p)
    \/ useSchemaDirect(p)
    \/ useSchemaLookup(p)
    \/ useSchemaWrite(p)
    \/ useSchemaPublish(p)
    \/ detachSchemaHandler(p)
    \/ removeSchemaFromStationDirect(p)
    \/ removeSchemaWrite(p)
    \/ removeSchemaPublish(p)
    \/ CreateStationHandler(p)
    \/ CreateStation(p)
    \/ CreateStationSchema(p)
    \/ CreateStationStream(p)
    \/ CreateStationDls(p)
    \/ CreateStationUpsert(p)
    \/ Finish(p)

Next ==
    \/ \E p \in Slots : Handler(p)
    \/ \E p \in Slots : Inspector(p)
    \/ \E p \in Slots : Journey(p)
    \/ \E p \in Slots : MessageDetails(p)
    \/ \E p \in Slots : RemoveStationHandler(p) \/ RemoveStation(p)
                              \/ RemoveStationTombstone(p)
    \/ createProducerDirect
    \/ createConsumerDirect
    \/ PoisonMessage

Spec == Init /\ [][Next]_vars

(***************************************************************************)
(* The broker with its requests arriving one after the other: a task       *)
(* takes a step only while no other task is in flight.                     *)
(***************************************************************************)
Alone(p) == \A q \in Slots \ {p} : task[q].pc = "idle"

NextSeq ==
    \/ \E p \in Slots : Alone(p) /\ Handler(p)
    \/ createProducerDirect
    \/ createConsumerDirect

SpecSeq == Init /\ [][NextSeq]_vars

(***************************************************************************)
(* Concurrent tasks.  The concurrent specifications take the requests      *)
(* that pass decoding and validation, and each the handlers of one part    *)
(* of the control plane: every behaviour of theirs is a behaviour of Spec. *)
(***************************************************************************)
Accepted(payloads) ==
    {req \in payloads :
        /\ req.decodes
        /\ StationNameFromStr(req.station_name).err = NoErr
        /\ IsSchemaExist(ToLower(req.schema_name)) \/ req.schema_name = ""
        /\ BuildStationDirect(req, "", EmptySchema, TRUE).err = NoErr}

createStationAccepted(p) ==
    \E req \in Accepted(CreatePayloads) :
        Spawn(p, "createStation", "cs_check", req)

destroyStationAccepted(p) ==
    \E req \in Accepted(DestroyPayloads) :
        Spawn(p, "removeStation", "rs_check", req)

attachSchemaAccepted(p) ==
    \E req \in Accepted(AttachPayloads) :
        Spawn(p, "useSchema", "us_check", req)

detachSchemaAccepted(p) ==
    \E req \in Accepted(DetachPayloads) :
        Spawn(p, "removeSchema", "ds_check", req)

(* Station lifecycle: CreateStation, both variants, and DestroyStation. *)
LifecycleHandler(p) ==
    \/ createStationAccepted(p)
    \/ createStationDirect(p)
    \/ createStationSchema(p)
    \/ createStationStream(p)
    \/ createStationDls(p)
    \/ createStationInsert(p)
    \/ destroyStationAccepted(p)
    \/ removeStationDirect(p)
    \/ removeStationMainStream(p)
    \/ removeStationDlsStream(p)
    \/ removeStationProducers(p)
    \/ removeStationConsumers(p)
    \/ removeStationTombstone(p)
    \/ CreateStationHandler(p)
    \/ CreateStation(p)
    \/ CreateStationSchema(p)
    \/ CreateStationStream(p)
    \/ CreateStationDls(p)
    \/ CreateStationUpsert(p)
    \/ Finish(p)

NextLifecycle ==
    \/ \E p \in Slots : LifecycleHandler(p)
    \/ createProducerDirect
    \/ createConsumerDirect

SpecLifecycle == Init /\ [][NextLifecycle]_vars

(* Schema binding: AttachSchema and DetachSchema on stations created by *)
(* the wire CreateStation.                                              *)
SchemaHandler(p) ==
    \/ createStationAccepted(p)
    \/ createStationDirect(p)
    \/ createStationSchema(p)
    \/ createStationStream(p)
    \/ createStationDls(p)
    \/ createStationInsert(p)
    \/ attachSchemaAccepted(p)
    \/ useSchemaDirect(p)
    \/ useSchemaLookup(p)
    \/ useSchemaWrite(p)
    \/ useSchemaPublish(p)
    \/ detachSchemaAccepted(p)
    \/ removeSchemaFromStationDirect(p)
    \/ removeSchemaWrite(p)
    \/ removeSchemaPublish(p)
    \/ Finish(p)

NextSchema == \E p \in Slots : SchemaHandler(p)

SpecSchema == Init /\ [][NextSchema]_vars

(* Every operation that writes station records, concurrently: the wire  *)
(* CreateStation, DestroyStation, AttachSchema and DetachSchema,        *)
(* UpdateDlsConfig and LaunchDlsForOldStations.                         *)
UpdateDlsConfigAccepted(p) ==
    \E req \in Accepted(DlsConfigPayloads) :
        Spawn(p, "UpdateDlsConfig", "ud_check", req)

CreateStationAccepted(p) ==
    \E req \in Accepted(HttpCreatePayloads) :
        Spawn(p, "CreateStation", "hc_check", req)

UseSchemaAccepted(p) ==
    \E req \in {r \in UseSchemaPayloads :
                    /\ IsSchemaExist(ToLower(r.schema_name))
                    /\ \A i \in DOMAIN r.station_names :
                          StationNameFromStr(r.station_names[i]).err = NoErr} :
        Spawn(p, "UseSchema", "hu_schema", req)

RecordsHandler(p) ==
    \/ createStationAccepted(p)
    \/ createStationDirect(p)
    \/ createStationSchema(p)
    \/ createStationStream(p)
    \/ createStationDls(p)
    \/ createStationInsert(p)
    \/ destroyStationAccepted(p)
    \/ removeStationDirect(p)
    \/ removeStationMainStream(p)
    \/ removeStationDlsStream(p)
    \/ removeStationProducers(p)
    \/ removeStationConsumers(p)
    \/ removeStationTombstone(p)
    \/ attachSchemaAccepted(p)
    \/ useSchemaDirect(p)
    \/ useSchemaLookup(p)
    \/ useSchemaWrite(p)
    \/ useSchemaPublish(p)
    \/ detachSchemaAccepted(p)
    \/ removeSchemaFromStationDirect(p)
    \/ removeSchemaWrite(p)
    \/ removeSchemaPublish(p)
    \/ UpdateDlsConfigAccepted(p)
    \/ UpdateDlsConfig(p)
    \/ UpdateDlsConfigWrite(p)
    \/ LaunchDlsHandler(p)
    \/ LaunchDlsForOldStations(p)
    \/ LaunchDlsStreamInfo(p)
    \/ LaunchDlsUpdate(p)
    \/ LaunchDlsCreate(p)
    \/ CreateStationAccepted(p)
    \/ CreateStation(p)
    \/ CreateStationSchema(p)
    \/ CreateStationStream(p)
    \/ CreateStationDls(p)
    \/ CreateStationUpsert(p)
    \/ UseSchemaAccepted(p)
    \/ UseSchema(p)
    \/ UseSchemaStation(p)
    \/ UseSchemaWrite(p)
    \/ UseSchemaPublish(p)
    \/ Finish(p)

NextRecords == \E p \in Slots : RecordsHandler(p)

SpecRecords == Init /\ [][NextRecords]_vars

(* Schema binding with two schemas: SpecSchema with AttachSchema of s1 *)
(* and of s2.                                                          *)
attachSchemaEither(p) ==
    \E req \in Accepted(AttachPayloads) \cup {[Plain("a") EXCEPT !.schema_name = "s2"]} :
        Spawn(p, "useSchema", "us_check", req)

BindingHandler(p) ==
    \/ createStationAccepted(p)
    \/ createStationDirect(p)
    \/ createStationSchema(p)
    \/ createStationStream(p)
    \/ createStationDls(p)
    \/ createStationInsert(p)
    \/ attachSchemaEither(p)
    \/ useSchemaDirect(p)
    \/ useSchemaLookup(p)
    \/ useSchemaWrite(p)
    \/ useSchemaPublish(p)
    \/ detachSchemaAccepted(p)
    \/ removeSchemaFromStationDirect(p)
    \/ removeSchemaWrite(p)
    \/ removeSchemaPublish(p)
    \/ Finish(p)

NextBinding == \E p \in Slots : BindingHandler(p)

SpecBinding == Init /\ [][NextBinding]_vars

(* The inspector on a station created over the wire: a request is taken *)
(* when no other is running, while the engine goes on routing messages  *)
(* to the DLS stream.                                                   *)
createStationPlain(p) ==
    Alone(p) /\ Spawn(p, "createStation", "cs_check", Plain("A"))

AckPoisonMessagesAlone(p) == Alone(p) /\ AckPoisonMessagesHandler(p)

ResendPoisonMessagesAlone(p) == Alone(p) /\ ResendPoisonMessagesHandler(p)

DlsHandler(p) ==
    \/ createStationPlain(p)
    \/ createStationDirect(p)
    \/ createStationStream(p)
    \/ createStationDls(p)
    \/ createStationInsert(p)
    \/ AckPoisonMessagesAlone(p)
    \/ ResendPoisonMessagesAlone(p)
    \/ InspectorStep(p)
    \/ Finish(p)

NextDls ==
    \/ \E p \in Slots : DlsHandler(p)
    \/ PoisonMessage

SpecDls == Init /\ [][NextDls]_vars

(* The inspector with its requests running concurrently, on a station *)
(* created by the first request and a DLS stream filled while no       *)
(* inspector request is running.  A request is taken while the unique  *)
(* ids its fetches and those of the running requests need are within   *)
(* the bound.                                                          *)
FetchesAhead ==
    LET Ahead(q) == IF task[q].kind \notin InspectorKinds \/ task[q].pc = "done" THEN 0
                    ELSE IF task[q].pc = "pm_station"
                         THEN Len(task[q].req.poison_message_ids)
                    ELSE IF task[q].pc = "pm_info" THEN Len(task[q].ids)
                    ELSE Len(task[q].ids) - 1
        RECURSIVE Sum(_)
        Sum(n) == IF n = 0 THEN 0 ELSE Ahead(n) + Sum(n - 1)
    IN Sum(NumSlots)

ValidPoisonPayloads ==
    {req \in PoisonPayloads :
        StationNameFromStr(req.poison_message_ids[1][1]).err = NoErr}

AckPoisonMessagesAccepted(p) ==
    \E req \in ValidPoisonPayloads :
        /\ nuid + FetchesAhead + Len(req.poison_message_ids) <= MaxFetches
        /\ Spawn(p, "AckPoisonMessages", "pm_station", req)

ResendPoisonMessagesAccepted(p) ==
    \E req \in ValidPoisonPayloads :
        /\ nuid + FetchesAhead + Len(req.poison_message_ids) <= MaxFetches
        /\ Spawn(p, "ResendPoisonMessages", "pm_station", req)

createStationFirst(p) == started = 0 /\ createStationPlain(p)

PoisonMessageBefore ==
    /\ \A q \in Slots : task[q].kind \notin InspectorKinds
    /\ PoisonMessage

FetchHandler(p) ==
    \/ createStationFirst(p)
    \/ createStationDirect(p)
    \/ createStationStream(p)
    \/ createStationDls(p)
    \/ createStationInsert(p)
    \/ AckPoisonMessagesAccepted(p)
    \/ ResendPoisonMessagesAccepted(p)
    \/ InspectorStep(p)
    \/ Finish(p)

NextFetch ==
    \/ \E p \in Slots : FetchHandler(p)
    \/ PoisonMessageBefore

SpecFetch == Init /\ [][NextFetch]_vars

(* Validation and defaults of CreateStation: the first request of the *)
(* broker, wire or HTTP, with its fields drawn from these values.      *)
RetentionTypes == {"", "messages", "Bytes", "hours"}
RetentionValues == {0, 7}
StorageTypes == {"", "memory", "disk"}
ReplicaValues == {-1, 0, 1, 5, 6}
WindowValues == {-5, 0, 50, 99, 100, 200, 1000000}

ValidationPayloads ==
    {Payload(TRUE, "a", "", rt, rv, st, r, w) :
        rt \in RetentionTypes, rv \in RetentionValues, st \in StorageTypes,
        r \in ReplicaValues, w \in WindowValues}

createStationAny(p) ==
    \E req \in ValidationPayloads :
        started = 0 /\ Spawn(p, "createStation", "cs_check", req)

CreateStationAny(p) ==
    \E req \in ValidationPayloads :
        started = 0 /\ Spawn(p, "CreateStation", "hc_check", req)

ValidateHandler(p) ==
    \/ createStationAny(p)
    \/ createStationDirect(p)
    \/ createStationStream(p)
    \/ createStationDls(p)
    \/ createStationInsert(p)
    \/ CreateStationAny(p)
    \/ CreateStation(p)
    \/ CreateStationStream(p)
    \/ CreateStationDls(p)
    \/ CreateStationUpsert(p)
    \/ Finish(p)

NextValidate == \E p \in Slots : ValidateHandler(p)

SpecValidate == Init /\ [][NextValidate]_vars

(* getCgStatus on every list of up to MaxMembers members. *)
CgStatusHandler(p) ==
    \/ getCgStatusCall(p)
    \/ Finish(p)

NextCgStatus == \E p \in Slots : CgStatusHandler(p)

SpecCgStatus == Init /\ [][NextCgStatus]_vars

(* The message journey of the DLS messages of one station: a journey *)
(* request after the station was created.                            *)
GetPoisonMessageJourneyAlone(p) ==
    /\ started = 1
    /\ Alone(p)
    /\ GetPoisonMessageJourneyHandler(p)

JourneyHandler(p) ==
    \/ createStationFirst(p)
    \/ createStationDirect(p)
    \/ createStationStream(p)
    \/ createStationDls(p)
    \/ createStationInsert(p)
    \/ GetPoisonMessageJourneyAlone(p)
    \/ GetPoisonMessageJourney(p)
    \/ GetDlsMessageJourneyDetails(p)
    \/ GetPoisonedCgsByMessage(p)
    \/ GetPoisonedCgs(p)
    \/ Finish(p)

NextJourney == \E p \in Slots : JourneyHandler(p)

SpecJourney == Init /\ [][NextJourney]_vars

(* GetMessageDetails of a message of the main stream, after the station *)
(* was created.                                                         *)
GetMessageDetailsAlone(p) ==
    \E req \in {r \in MessageDetailsPayloads : ~r.is_poison_message} :
        /\ started = 1
        /\ Alone(p)
        /\ Spawn(p, "GetMessageDetails", "md_station", req)

DetailsHandler(p) ==
    \/ createStationFirst(p)
    \/ createStationDirect(p)
    \/ createStationStream(p)
    \/ createStationDls(p)
    \/ createStationInsert(p)
    \/ GetMessageDetailsAlone(p)
    \/ GetMessageDetails(p)
    \/ GetMessage(p)
    \/ GetMessagePoisonedCgs(p)
    \/ GetMessageProducer(p)
    \/ Finish(p)

NextDetails == \E p \in Slots : DetailsHandler(p)

SpecDetails == Init /\ [][NextDetails]_vars

(* The HTTP CreateStation with and without an actor in the request *)
(* context, one request after the other.                           *)
ActorPayloads ==
    {Plain("a"), [Plain("a") EXCEPT !.actor = FALSE],
     [Plain("A") EXCEPT !.actor = FALSE, !.replicas = 6],
     [Plain("?") EXCEPT !.actor = FALSE]}

CreateStationActor(p) ==
    \E req \in ActorPayloads :
        Alone(p) /\ Spawn(p, "CreateStation", "hc_check", req)

ActorHandler(p) ==
    \/ CreateStationActor(p)
    \/ CreateStation(p)
    \/ CreateStationStream(p)
    \/ CreateStationDls(p)
    \/ CreateStationUpsert(p)
    \/ Finish(p)

NextActor == \E p \in Slots : ActorHandler(p)

SpecActor == Init /\ [][NextActor]_vars

(* AttachSchema and DestroyStation, concurrently, on a station created *)
(* by the first request.                                               *)
AttachHandler(p) ==
    \/ createStationFirst(p)
    \/ createStationDirect(p)
    \/ createStationStream(p)
    \/ createStationDls(p)
    \/ createStationInsert(p)
    \/ destroyStationAccepted(p)
    \/ removeStationDirect(p)
    \/ removeStationMainStream(p)
    \/ removeStationDlsStream(p)
    \/ removeStationProducers(p)
    \/ removeStationConsumers(p)
    \/ removeStationTombstone(p)
    \/ attachSchemaAccepted(p)
    \/ useSchemaDirect(p)
    \/ useSchemaLookup(p)
    \/ useSchemaWrite(p)
    \/ useSchemaPublish(p)
    \/ Finish(p)

NextAttach == \E p \in Slots : AttachHandler(p)

SpecAttach == Init /\ [][NextAttach]_vars

(* The inspector with the delivery tasks of its fetches, its requests *)
(* one after the other.                                               *)
DeliveryHandler(p) ==
    \/ createStationFirst(p)
    \/ createStationDirect(p)
    \/ createStationStream(p)
    \/ createStationDls(p)
    \/ createStationInsert(p)
    \/ AckPoisonMessagesAlone(p)
    \/ ResendPoisonMessagesAlone(p)
    \/ PoisonMessagesStation(p)
    \/ memphisStreamInfo(p)
    \/ memphisAddConsumer(p)
    \/ subscribeOnGlobalAcc(p)
    \/ DeliverMsg(p)
    \/ DeliveryAck(p)
    \/ DeliveryReceive(p)
    \/ FetchTimer(p)
    \/ memphisRemoveConsumer(p)
    \/ memphisDeleteMsgFromStream(p)
    \/ ResendPoisonMessage(p)
    \/ Finish(p)

NextDelivery ==
    \/ \E p \in Slots : DeliveryHandler(p)
    \/ PoisonMessageBefore

SpecDelivery == Init /\ [][NextDelivery]_vars

(* CreateStation, wire and HTTP, one request after the other, with a *)
(* request for each way validation fails and one that passes.        *)
FramePayloads ==
    { Plain("a"), Plain("?"),
      Payload(TRUE, "a", "nope", "", 0, "", 0, 0),
      Payload(TRUE, "A", "", "hours", 7, "", 0, 0),
      Payload(TRUE, "A", "", "", 0, "disk", 0, 0),
      Payload(TRUE, "A", "", "", 0, "", 6, 0) }

createStationFrame(p) ==
    \E req \in FramePayloads :
        Alone(p) /\ Spawn(p, "createStation", "cs_check", req)

CreateStationFrame(p) ==
    \E req \in FramePayloads :
        Alone(p) /\ Spawn(p, "CreateStation", "hc_check", req)

FrameHandler(p) ==
    \/ createStationFrame(p)
    \/ createStationDirect(p)
    \/ createStationSchema(p)
    \/ createStationStream(p)
    \/ createStationDls(p)
    \/ createStationInsert(p)
    \/ CreateStationFrame(p)
    \/ CreateStation(p)
    \/ CreateStationSchema(p)
    \/ CreateStationStream(p)
    \/ CreateStationDls(p)
    \/ CreateStationUpsert(p)
    \/ Finish(p)

NextFrame == \E p \in Slots : FrameHandler(p)

SpecFrame == Init /\ [][NextFrame]_vars

(* The HTTP RemoveStation, its requests one after the other, on a station *)
(* created by the first request and its producer.                         *)
RemoveStationAlone(p) == Alone(p) /\ RemoveStationHandler(p)

RemoveHandler(p) ==
    \/ createStationFirst(p)
    \/ createStationDirect(p)
    \/ createStationStream(p)
    \/ createStationDls(p)
    \/ createStationInsert(p)
    \/ RemoveStationAlone(p)
    \/ RemoveStation(p)
    \/ removeStationMainStream(p)
    \/ removeStationDlsStream(p)
    \/ removeStationProducers(p)
    \/ removeStationConsumers(p)
    \/ RemoveStationTombstone(p)
    \/ Finish(p)

NextRemove ==
    \/ \E p \in Slots : RemoveHandler(p)
    \/ createProducerDirect

SpecRemove == Init /\ [][NextRemove]_vars

(***************************************************************************)
(* Properties.                                                             *)
(***************************************************************************)
WireKinds == {"createStation", "removeStation", "useSchema", "removeSchema"}
CreateKinds == {"createStation", "CreateStation"}

Last(seq) == seq[Len(seq)]
Pos(seq, x) == Min({i \in DOMAIN seq : seq[i] = x})

HasStreams(ext) ==
    LET sn == StationNameFromStr(ext)
    IN {MainStream(sn.internal), DlsStream(sn.internal)} \subseteq streams

(* C1: at most one non-deleted station record carries an external name, *)
(* in every reachable state of concurrent CreateStation requests.       *)
C1_UniqueLiveName ==
    \A i, j \in DOMAIN stations :
        (/\ stations[i].name = stations[j].name
         /\ ~stations[i].is_deleted
         /\ ~stations[j].is_deleted) => i = j

(* C2: a wire request whose handler has ended, by returning or by a    *)
(* panic, has exactly one reply on its reply subject.                  *)
C2_ExactlyOneReply ==
    \A p \in Slots :
        (task[p].kind \in WireKinds /\ task[p].pc \in {"done", "panicked"})
            => Len(task[p].replies) = 1

(* C3: every non-deleted native station record has its main stream and *)
(* its DLS stream in the engine.                                       *)
C3_LiveNativeHasStreams ==
    \A i \in DOMAIN stations :
        (~stations[i].is_deleted /\ stations[i].is_native)
            => HasStreams(stations[i].name)

(* C4: schema updates are published in the order in which their binding *)
(* writes were applied, and once the schema requests have ended the     *)
(* last update published is that of the last binding write.             *)
C4_PublishedInWriteOrder ==
    /\ \A i, j \in DOMAIN published :
          (/\ i < j
           /\ published[i].rid \in Range(applied)
           /\ published[j].rid \in Range(applied))
              => Pos(applied, published[i].rid) < Pos(applied, published[j].rid)
    /\ (/\ \A p \in Slots : task[p].pc \in {"idle", "done"}
        /\ applied # <<>>
        /\ \E i \in DOMAIN published : published[i].rid = Last(applied))
           => Last(published).rid = Last(applied)

(* C5: in the state right after a DestroyStation task has tombstoned a  *)
(* station record neither the main nor the DLS stream of the name is in *)
(* the engine.                                                          *)
C5_NoStreamAfterTombstone ==
    [][\A p \in Slots :
          (/\ task[p].pc = "rs_tomb"
           /\ task'[p].pc = "done"
           /\ task'[p].tomb # 0)
              => {MainStream(task[p].stationName.internal),
                  DlsStream(task[p].stationName.internal)} \cap streams' = {}]_vars

(* C6: with requests one after the other, a CreateStation for a name    *)
(* that has a live station leaves the station records and the streams   *)
(* as they were, creates no stream and writes no record, and exactly    *)
(* one non-deleted record of the name exists when it ends.              *)
C6_SecondCreateChangesNothing ==
    /\ [](\A p \in Slots :
            (/\ task[p].kind \in CreateKinds
             /\ task[p].pc = "done"
             /\ task[p].exist)
                => /\ Cardinality(LiveIds(task[p].stationName.external)) = 1
                   /\ task[p].made = {}
                   /\ task[p].wrote = 0)
    /\ [][\A p \in Slots :
            (task'[p].kind \in CreateKinds /\ task'[p].exist)
                => UNCHANGED <<stations, streams>>]_vars

C6_Witness ==
    \E p \in Slots :
        /\ task[p].kind = "createStation"
        /\ task[p].pc = "done"
        /\ task[p].exist
        /\ Cardinality(LiveIds(task[p].stationName.external)) = 1

(* C7: a wire CreateStation for a name that has a live station is       *)
(* answered "Station <external name> already exists".                   *)
C7_NameExistsReply ==
    \A p \in Slots :
        (/\ task[p].kind = "createStation"
         /\ task[p].pc = "done"
         /\ task[p].exist)
            => task[p].replies =
                  <<"Station " \o task[p].stationName.external \o " already exists">>

(* C8: a wire CreateStation naming a schema that does not exist is      *)
(* answered with a non-empty error and creates no stream and no station *)
(* record.                                                              *)
C8_SchemaMissingReply ==
    \A p \in Slots :
        (/\ task[p].kind = "createStation"
         /\ task[p].pc = "done"
         /\ task[p].req.decodes
         /\ task[p].req.schema_name # ""
         /\ ~IsSchemaExist(ToLower(task[p].req.schema_name)))
            => /\ Len(task[p].replies) = 1
               /\ task[p].replies[1] # ""
               /\ task[p].made = {}
               /\ task[p].wrote = 0

(* C9: with requests one after the other and no store or engine         *)
(* failure, a valid wire CreateStation for a name whose records are all *)
(* tombstoned succeeds: it replies success, its record is new and       *)
(* non-deleted next to the tombstoned one, and both streams exist.      *)
C9_CreateAfterDestroy ==
    \A p \in Slots :
        LET t == task[p]
            ext == t.stationName.external
            others == {i \in DOMAIN stations :
                          stations[i].name = ext /\ i # t.wrote}
        IN (/\ t.kind = "createStation"
            /\ t.pc = "done"
            /\ t.req \in Accepted(CreatePayloads)
            /\ faults = 0
            /\ others # {}
            /\ \A i \in others : stations[i].is_deleted)
               => /\ t.replies = <<"">>
                  /\ t.wrote \in DOMAIN stations
                  /\ stations[t.wrote].name = ext
                  /\ ~stations[t.wrote].is_deleted
                  /\ HasStreams(ext)

C9_Witness ==
    \E p \in Slots :
        /\ task[p].kind = "createStation"
        /\ task[p].pc = "done"
        /\ faults = 0
        /\ task[p].wrote > 1
        /\ \E i \in DOMAIN stations :
              /\ i < task[p].wrote
              /\ stations[i].name = task[p].stationName.external
              /\ stations[i].is_deleted
        /\ ~stations[task[p].wrote].is_deleted
        /\ HasStreams(task[p].stationName.external)

(* C10: once a DestroyStation has replied success, every producer and   *)
(* every consumer of the station record it tombstoned is inactive and   *)
(* deleted.                                                             *)
C10_MembersOfTombstonedDeleted ==
    \A p \in Slots :
        (/\ task[p].kind = "removeStation"
         /\ task[p].pc = "done"
         /\ task[p].replies = <<"">>
         /\ task[p].tomb # 0)
            => /\ \A k \in DOMAIN producers :
                     producers[k].station_id = task[p].tomb
                        => ~producers[k].is_active /\ producers[k].is_deleted
               /\ \A k \in DOMAIN consumers :
                     consumers[k].station_id = task[p].tomb
                        => ~consumers[k].is_active /\ consumers[k].is_deleted

(* C11: a CreateStation task writes its station record only in a step   *)
(* taken after it has created both the main and the DLS stream, and a   *)
(* task that ends in a failed stream creation has written no record and *)
(* is answered with the error.                                          *)
StreamSteps == {"cs_stream", "cs_dls", "hc_stream", "hc_dls"}

C11_RecordAfterBothStreams ==
    [][\A p \in Slots :
          /\ (task[p].kind \in CreateKinds /\ task[p].wrote = 0 /\ task'[p].wrote # 0)
                => /\ task[p].made = {MainStream(task[p].stationName.internal),
                                      DlsStream(task[p].stationName.internal)}
                   /\ task[p].made \subseteq streams
          /\ (task[p].pc \in StreamSteps /\ task'[p].pc = "done")
                => /\ stations' = stations
                   /\ task'[p].wrote = 0
                   /\ Last(task'[p].replies) \in {EngineErr, "500 Server error"}]_vars

C11_Witness ==
    \E p \in Slots :
        /\ task[p].kind = "createStation"
        /\ task[p].pc = "done"
        /\ task[p].made = {MainStream(task[p].stationName.internal)}
        /\ task[p].replies = <<EngineErr>>
        /\ task[p].wrote = 0

(* C12: with requests one after the other, an AttachSchema(s, n) that   *)
(* is answered success has left the binding of the live station n equal *)
(* to (lowercase s, active version of s) and has published an Init      *)
(* update on the update subject of n; the same for every station of an  *)
(* HTTP UseSchema answered 200.                                         *)
Binding(schema) ==
    [name |-> ToLower(schema), version |-> ActiveVersion(ToLower(schema))]

Attached(station, schema, rid) ==
    LET sn == StationNameFromStr(station)
    IN /\ LiveIds(sn.external) # {}
       /\ stations[FirstLive(sn.external)].schema = Binding(schema)
       /\ \E i \in DOMAIN published :
             /\ published[i].subject = sn.internal
             /\ published[i].update_type = "init"
             /\ published[i].schema = ToLower(schema)
             /\ published[i].rid = rid

C12_AttachBindsAndPublishes ==
    \A p \in Slots :
        /\ (/\ task[p].kind = "useSchema"
            /\ task[p].pc = "done"
            /\ task[p].replies = <<"">>)
              => Attached(task[p].req.station_name, task[p].req.schema_name,
                          task[p].rid)
        /\ (/\ task[p].kind = "UseSchema"
            /\ task[p].pc = "done"
            /\ task[p].replies # <<>>
            /\ Last(task[p].replies) = "200")
              => \A i \in DOMAIN task[p].req.station_names :
                    Attached(task[p].req.station_names[i],
                             task[p].req.schema_name, task[p].rid)

C12_Witness ==
    \E p \in Slots :
        /\ task[p].kind = "useSchema"
        /\ task[p].pc = "done"
        /\ task[p].replies = <<"">>
        /\ task[p].req.schema_name = "S1"
        /\ Attached("a", "S1", task[p].rid)

(* C13: with requests one after the other, a DetachSchema(n) answered   *)
(* success has left the binding of the live station n empty and has     *)
(* published a Drop update on the update subject of n; a DetachSchema   *)
(* that found no station is answered with an error, has written no      *)
(* binding and has published no Drop.                                   *)
Dropped(sn, rid) ==
    \E i \in DOMAIN published :
        /\ published[i].subject = sn.internal
        /\ published[i].update_type = "drop"
        /\ published[i].rid = rid

C13_DetachClearsAndPublishes ==
    \A p \in Slots :
        LET t == task[p]
        IN /\ (t.kind = "removeSchema" /\ t.pc = "done" /\ t.replies = <<"">>)
                => /\ LiveIds(t.stationName.external) # {}
                   /\ stations[FirstLive(t.stationName.external)].schema = EmptySchema
                   /\ Dropped(t.stationName, t.rid)
           /\ (t.kind = "removeSchema" /\ t.pc = "done" /\ ~t.exist)
                => /\ Len(t.replies) = 1
                   /\ t.replies[1] # ""
                   /\ t.rid \notin Range(applied)
                   /\ \A i \in DOMAIN published : published[i].rid # t.rid

C13_Witness ==
    \E p \in Slots :
        /\ task[p].kind = "removeSchema"
        /\ task[p].pc = "done"
        /\ task[p].replies = <<"">>
        /\ Dropped(task[p].stationName, task[p].rid)
        /\ \E i \in DOMAIN published :
              published[i].update_type = "init" /\ published[i].rid < task[p].rid
        /\ stations[FirstLive(task[p].stationName.external)].schema = EmptySchema

(* C14: a station record that is tombstoned is left as it is by every   *)
(* step of every operation, concurrent ones included, and the number of *)
(* station records never decreases.                                     *)
C14_TombstonedIsTerminal ==
    [][/\ Len(stations') >= Len(stations)
       /\ \A i \in DOMAIN stations :
             stations[i].is_deleted => stations'[i] = stations[i]]_vars

C14_Witness ==
    \E p \in Slots :
        /\ task[p].kind = "removeSchema"
        /\ task[p].pc = "ds_publish"
        /\ LiveIds(task[p].stationName.external) = {}
        /\ \E i \in DOMAIN stations :
              /\ stations[i].name = task[p].stationName.external
              /\ stations[i].is_deleted
              /\ stations[i].schema # EmptySchema

(* C15: with requests one after the other, a DestroyStation for a name  *)
(* whose station is tombstoned and has no live record is answered with  *)
(* the does-not-exist error, and its step leaves the station records,   *)
(* the streams, the producers and the consumers as they were.           *)
NoStreams(ext) ==
    LET sn == StationNameFromStr(ext)
    IN {MainStream(sn.internal), DlsStream(sn.internal)} \cap streams = {}

Tombstoned(ext) ==
    /\ LiveIds(ext) = {}
    /\ \E i \in DOMAIN stations : stations[i].name = ext /\ stations[i].is_deleted

C15_SecondDestroyChangesNothing ==
    /\ [](\A p \in Slots :
            (/\ task[p].kind = "removeStation"
             /\ task[p].pc = "done"
             /\ task[p].req.decodes
             /\ task[p].stationName.err = NoErr
             /\ ~task[p].exist
             /\ task[p].replies # <<StoreErr>>
             /\ Tombstoned(task[p].stationName.external))
                => task[p].replies = <<"Station  does not exist">>)
    /\ [][\A p \in Slots :
            (/\ task[p].kind = "removeStation"
             /\ task[p].pc = "rs_check"
             /\ task'[p].pc # "rs_check"
             /\ ~task'[p].exist)
                => UNCHANGED <<stations, streams, producers, consumers, tags>>]_vars

C15_Witness ==
    \E p \in Slots :
        /\ task[p].kind = "removeStation"
        /\ task[p].pc = "done"
        /\ ~task[p].exist
        /\ task[p].replies = <<"Station  does not exist">>
        /\ Tombstoned(task[p].stationName.external)
        /\ NoStreams(task[p].stationName.external)

(* C16: the binding of every non-deleted station is empty or the name   *)
(* of an existing schema with the active version of that same schema,   *)
(* in every reachable state of concurrent AttachSchema and DetachSchema *)
(* requests.                                                            *)
C16_BindingIsConsistent ==
    \A i \in DOMAIN stations :
        ~stations[i].is_deleted
            => \/ stations[i].schema = EmptySchema
               \/ /\ IsSchemaExist(stations[i].schema.name)
                  /\ stations[i].schema.version = ActiveVersion(stations[i].schema.name)

C16_Witness ==
    \E p, q \in Slots :
        /\ p # q
        /\ task[p].kind = "useSchema" /\ task[p].pc = "us_publish"
        /\ task[q].kind = "useSchema" /\ task[q].pc = "us_publish"
        /\ task[p].newStation.schema.name = "s1"
        /\ task[q].newStation.schema.name = "s2"
        /\ task[p].rid \in Range(applied)
        /\ task[q].rid \in Range(applied)
        /\ \E i \in DOMAIN stations :
              ~stations[i].is_deleted /\ stations[i].schema = Binding("s2")

(* The messages of the DLS stream on the filter subject of the fetch of t. *)
Matching(t) ==
    {m \in dlsMsgs :
        m.Subject = GetDlsSubject("poison", t.stationName.internal, Head(t.ids))}

Collected(t) == {t.msgs[i] : i \in DOMAIN t.msgs}

DurableNames == {cc.Durable : cc \in durables}

(* C17: when the fetch loop has ended, the buffer holds all k messages *)
(* of the filter subject if amount >= k, and amount messages if       *)
(* amount < k.                                                        *)
C17_FetchCollectsAll ==
    \A p \in Slots :
        task[p].pc = "pm_cleanup"
            => IF task[p].amount >= Cardinality(Matching(task[p]))
               THEN Collected(task[p]) = Matching(task[p])
               ELSE Len(task[p].msgs) = task[p].amount

(* C18: when AckPoisonMessages or ResendPoisonMessages has returned, the *)
(* durable consumer of its last fetch no longer exists.                  *)
C18_NoConsumerAfterReturn ==
    \A p \in Slots :
        (task[p].kind \in InspectorKinds /\ task[p].pc = "done")
            => task[p].durable \notin DurableNames

Answered(p, kind, status) ==
    /\ task[p].kind = kind
    /\ task[p].pc = "done"
    /\ task[p].replies = <<status>>

(* C19: when AckPoisonMessages has answered 200, for each id of the     *)
(* request the sequences deleted are the sequences its fetch collected, *)
(* whether the count or the timer ended the fetch, and none of them is  *)
(* left in the DLS stream; an answer of 500 comes only from a step in   *)
(* which the store or the engine failed, the station name was invalid   *)
(* or the stream was missing, never from the timer.                     *)
C19_DeletedIsCollected ==
    /\ [](\A p \in Slots :
            Answered(p, "AckPoisonMessages", "200")
                => /\ Len(task[p].fetched) = Len(task[p].req.poison_message_ids)
                   /\ \A i \in DOMAIN task[p].fetched :
                         /\ task[p].fetched[i].id = task[p].req.poison_message_ids[i]
                         /\ task[p].fetched[i].deleted = task[p].fetched[i].collected
                         /\ \A m \in dlsMsgs :
                               m.Sequence \notin task[p].fetched[i].deleted)
    /\ [][\A p \in Slots :
            (/\ task[p].kind = "AckPoisonMessages"
             /\ task'[p].kind = "AckPoisonMessages"
             /\ task'[p].replies # task[p].replies)
                => \/ task'[p].replies = <<"200">>
                   \/ /\ task'[p].replies = <<"500 Server error">>
                      /\ \/ faults' = faults + 1
                         \/ task[p].pc = "pm_station"
                         \/ DlsStream(task[p].stationName.internal) \notin streams]_vars

C19_Witness ==
    \E p \in Slots :
        /\ Answered(p, "AckPoisonMessages", "200")
        /\ \E i \in DOMAIN task[p].fetched :
              /\ task[p].fetched[i].timedOut
              /\ Cardinality(task[p].fetched[i].collected) = 2
              /\ task[p].fetched[i].deleted = task[p].fetched[i].collected
        /\ dlsMsgs # {}

(* The messages re-published for the fetch of one durable consumer that *)
(* carry sequence seq.                                                  *)
ResentFor(durable, seq) ==
    {i \in DOMAIN resent :
        /\ resent[i].durable = durable
        /\ resent[i].headers["$memphis_pm_sequence"] = FormatUint(seq)}

(* C20: when ResendPoisonMessages has answered 200, every message a     *)
(* fetch collected was re-published exactly once for that fetch; each   *)
(* message re-published goes to the subject of the station and the      *)
(* poisoned consumer group of the collected message, with its data, its *)
(* original headers, $memphis_pm_id the id of the DLS message and       *)
(* $memphis_pm_sequence its sequence in the DLS stream.                 *)
C20_ResentOnceWithHeaders ==
    /\ [](\A p \in Slots :
            Answered(p, "ResendPoisonMessages", "200")
                => \A i \in DOMAIN task[p].fetched :
                      \A seq \in 1..dlsSeq :
                          Cardinality(ResentFor(task[p].fetched[i].durable, seq))
                              = IF seq \in task[p].fetched[i].collected THEN 1 ELSE 0)
    /\ [][\A p \in Slots :
            (task[p].pc = "pm_process" /\ resent' # resent)
                => LET msg == Head(task[p].todo)
                       r == Last(resent')
                   IN /\ resent' = Append(resent, r)
                      /\ msg \in Collected(task[p])
                      /\ r.subject = <<"$memphis_dls",
                                       StationNameFromStr(msg.Data.StationName).internal,
                                       msg.Data.PoisonedCg.CgName>>
                      /\ r.data = "payload"
                      /\ DOMAIN r.headers = DOMAIN OriginalHeaders
                            \cup {"$memphis_pm_id", "$memphis_pm_sequence"}
                      /\ \A k \in DOMAIN OriginalHeaders :
                            r.headers[k] = OriginalHeaders[k]
                      /\ r.headers["$memphis_pm_id"] = msg.Data.ID
                      /\ r.headers["$memphis_pm_sequence"] = ToString(msg.Sequence)]_vars

C20_Witness ==
    \E p \in Slots :
        /\ Answered(p, "ResendPoisonMessages", "200")
        /\ \E i \in DOMAIN task[p].fetched :
              /\ Cardinality(task[p].fetched[i].collected) = 2
              /\ \A seq \in task[p].fetched[i].collected :
                    Cardinality(ResentFor(task[p].fetched[i].durable, seq)) = 1
        /\ \E i, j \in DOMAIN resent : resent[i].subject # resent[j].subject
FetchSteps == {"pm_consumer", "pm_subscribe", "pm_loop", "pm_cleanup", "pm_process"}

(* C21: when the DLS stream is missing, the step of AckPoisonMessages or *)
(* ResendPoisonMessages that asks for the stream answers 500 and returns *)
(* with no durable consumer added, no message deleted and no message     *)
(* published; no fetch is past that step while the stream is missing.    *)
C21_MissingStreamFailsFirst ==
    /\ [](\A p \in Slots :
            (task[p].kind \in InspectorKinds /\ task[p].pc \in FetchSteps)
                => DlsStream(task[p].stationName.internal) \in streams)
    /\ [][\A p \in Slots :
            (/\ task[p].kind \in InspectorKinds
             /\ task[p].pc = "pm_info"
             /\ DlsStream(task[p].stationName.internal) \notin streams
             /\ task'[p] # task[p])
                => /\ task'[p].pc = "done"
                   /\ task'[p].replies = <<"500 Server error">>
                   /\ UNCHANGED <<durables, dlsMsgs, resent>>]_vars

C21_Witness ==
    \E p \in Slots :
        /\ Answered(p, "ResendPoisonMessages", "500 Server error")
        /\ task[p].stationName.err = NoErr
        /\ DlsStream(task[p].stationName.internal) \notin streams
        /\ faults = 0
        /\ nuid = 1
        /\ durables = {} /\ resent = <<>>
(* Line 1204: reply := durableName + "_reply". *)
FetchReply(durable) == <<"$memphis_fetch_dls_consumer", durable, "_reply">>

Fetching(p) == task[p].kind \in InspectorKinds /\ task[p].pc \in FetchSteps

(* C22: any two fetches, of two requests or of two ids of one request,  *)
(* running or over, have distinct durable names and reply subjects; a   *)
(* fetch collects only messages of its own filter subject, and its      *)
(* consumer is on the stream from its subscription to its own cleanup.  *)
C22_FetchesAreIndependent ==
    /\ \A p, q \in Slots :
          (p # q /\ Fetching(p) /\ Fetching(q))
              => /\ task[p].durable # task[q].durable
                 /\ FetchReply(task[p].durable) # FetchReply(task[q].durable)
    /\ \A p, q \in Slots :
          \A i \in DOMAIN task[q].fetched :
              /\ Fetching(p) => task[q].fetched[i].durable # task[p].durable
              /\ \A j \in DOMAIN task[p].fetched :
                    (p # q \/ i # j)
                        => task[p].fetched[j].durable # task[q].fetched[i].durable
    /\ \A cc1, cc2 \in durables : cc1.Durable = cc2.Durable => cc1 = cc2
    /\ \A p \in Slots :
          /\ (task[p].kind \in InspectorKinds
              /\ task[p].pc \in {"pm_subscribe", "pm_loop", "pm_cleanup"})
                => [Durable |-> task[p].durable,
                    FilterSubject |-> GetDlsSubject("poison",
                                                    task[p].stationName.internal,
                                                    Head(task[p].ids))] \in durables
          /\ Fetching(p)
                => \A i \in DOMAIN task[p].msgs :
                      task[p].msgs[i].Subject
                          = GetDlsSubject("poison", task[p].stationName.internal,
                                          Head(task[p].ids))

C22_Witness ==
    \E p, q \in Slots :
        /\ p # q
        /\ task[p].kind = "AckPoisonMessages" /\ task[p].pc = "pm_loop"
        /\ task[q].kind = "ResendPoisonMessages" /\ task[q].pc = "pm_loop"
        /\ Head(task[p].ids) = Head(task[q].ids)
        /\ Len(task[p].msgs) = 1 /\ task[q].msgs = task[p].msgs
        /\ task[p].durable # task[q].durable
        /\ Cardinality(durables) = 2
(* The step in which the create task of slot p writes its station record. *)
Writes(p) ==
    /\ task[p].kind \in CreateKinds
    /\ Len(stations') = Len(stations) + 1
    /\ task'[p].wrote = Len(stations')

(* C23: the record a CreateStation request writes, over the wire or over *)
(* HTTP, has idempotency window 120000 when the request gave w <= 0, 100 *)
(* when 0 < w < 100 and w when w >= 100; every station record has an     *)
(* idempotency window of at least 100.                                   *)
C23_IdempotencyWindowNormalized ==
    /\ [](\A i \in DOMAIN stations : stations[i].idempotency_window >= 100)
    /\ [][\A p \in Slots :
            Writes(p)
                => LET w == task[p].req.idempotency_window
                       persisted == stations'[Len(stations')].idempotency_window
                   IN /\ w <= 0 => persisted = 120000
                      /\ (0 < w /\ w < 100) => persisted = 100
                      /\ w >= 100 => persisted = w
                      /\ w = 0 => persisted = 120000
                      /\ w = 50 => persisted = 100
                      /\ w = 200 => persisted = 200
                      /\ w = 1000000 => persisted = 1000000]_vars

C23_Witness ==
    \E p \in Slots :
        /\ task[p].kind = "CreateStation"
        /\ task[p].pc = "done"
        /\ task[p].wrote # 0
        /\ task[p].req.idempotency_window = 50
        /\ stations[task[p].wrote].idempotency_window = 100
(* The reply of a finished create task: the wire reply or the HTTP body. *)
Refused(t, message) ==
    /\ t.pc = "done"
    /\ t.replies \in {<<message>>, <<"showable " \o message>>}

(* C24: the record a CreateStation request writes has replicas 1 when the *)
(* request gave a count of 0 or less and the requested count when it is   *)
(* 1 to 5; a request with a count above 5 makes no stream and no record,  *)
(* and is answered with an error, the replicas validation error when its  *)
(* retention and storage are valid and the store answered; every station  *)
(* record has replicas in 1..5.                                           *)
C24_ReplicasValidated ==
    /\ [](\A i \in DOMAIN stations : stations[i].replicas \in 1..5)
    /\ [](\A p \in Slots :
            LET t == task[p]
            IN (t.kind \in CreateKinds /\ t.req.replicas > 5)
                  => /\ streams = {} /\ stations = <<>>
                     /\ t.made = {} /\ t.wrote = 0
                     /\ t.pc = "done"
                           => /\ Len(t.replies) = 1
                              /\ t.replies[1] \notin {"", "200"}
                              /\ (/\ faults = 0
                                  /\ t.req.retention_type \in {"", "messages", "Bytes"}
                                  /\ t.req.storage_type \in {"", "memory"})
                                    => Refused(t, "max replicas in a cluster is 5"))
    /\ [][\A p \in Slots :
            Writes(p)
                => LET r == task[p].req.replicas
                       persisted == stations'[Len(stations')].replicas
                   IN /\ r <= 0 => persisted = 1
                      /\ r \in 1..5 => persisted = r]_vars

C24_Witness ==
    /\ \E p \in Slots :
          /\ task[p].kind = "createStation"
          /\ task[p].req.replicas = 6
          /\ task[p].req.retention_type = "messages"
          /\ Refused(task[p], "max replicas in a cluster is 5")
    /\ stations = <<>>
    /\ streams = {}
(* C25: the record a CreateStation request writes has retention          *)
(* (message_age_sec, 604800) when the request gave no retention type and *)
(* storage file when it gave no storage type; a request whose retention  *)
(* type, lower-cased, is none of message_age_sec, messages, bytes, or    *)
(* whose storage type, lower-cased, is none of file, memory, makes no    *)
(* stream and no record and is answered with an error.                   *)
C25_RetentionStorageDefaults ==
    /\ [](\A p \in Slots :
            LET t == task[p]
            IN (/\ t.kind \in CreateKinds
                /\ \/ /\ t.req.retention_type # ""
                      /\ ToLower(t.req.retention_type)
                            \notin {"message_age_sec", "messages", "bytes"}
                   \/ /\ t.req.storage_type # ""
                      /\ ToLower(t.req.storage_type) \notin {"file", "memory"})
                  => /\ streams = {} /\ stations = <<>>
                     /\ t.pc = "done"
                           => /\ Len(t.replies) = 1
                              /\ t.replies[1] \notin {"", "200"})
    /\ [][\A p \in Slots :
            Writes(p)
                => LET req == task[p].req
                       persisted == stations'[Len(stations')]
                   IN /\ req.retention_type = ""
                         => /\ persisted.retention_type = "message_age_sec"
                            /\ persisted.retention_value = 604800
                      /\ req.storage_type = ""
                         => persisted.storage_type = "file"]_vars
(* The DLS stream of a station record, as lines 2049-2053 name it. *)
DlsStreamOf(st) == DlsStream(StationNameFromStr(st.name).internal)

BothOn == [poison |-> TRUE, schemaverse |-> TRUE]

(* C26: when LaunchDlsForOldStations has returned nil, every non-deleted *)
(* station record has its DLS stream, and the records whose DLS stream   *)
(* the bootstrap created have dls_configuration {poison, schemaverse}    *)
(* both true; no step of the bootstrap adds a station record, and a step *)
(* changes a record only if its DLS stream is missing, and then only its *)
(* dls_configuration.                                                    *)
C26_BootstrapCompletesDls ==
    /\ [](\A p \in Slots :
            LET t == task[p]
            IN (/\ t.kind = "LaunchDlsForOldStations"
                /\ t.pc = "done"
                /\ t.replies = <<NoErr>>)
                  => \A i \in DOMAIN stations :
                        ~stations[i].is_deleted
                           => /\ DlsStreamOf(stations[i]) \in streams
                              /\ DlsStreamOf(stations[i]) \in t.made
                                    => stations[i].dls_configuration = BothOn)
    /\ [][\A p \in Slots :
            task[p].kind = "LaunchDlsForOldStations"
                => /\ Len(stations') = Len(stations)
                   /\ \A i \in DOMAIN stations :
                         stations'[i] # stations[i]
                            => /\ DlsStreamOf(stations[i]) \notin streams
                               /\ stations'[i] =
                                     [stations[i] EXCEPT !.dls_configuration = BothOn]]_vars
(* The step of slot p in which the record was written and the audit log *)
(* was not: CreateAuditLogs returned an error.                          *)
AuditLogFails(p, pc) ==
    /\ task[p].pc = pc
    /\ stations' # stations
    /\ auditLogs' = auditLogs
    /\ faults' = faults + 1

(* C27: when CreateAuditLogs fails in the wire CreateStation, the record *)
(* is inserted and the reply is the empty success reply; when it fails   *)
(* in the wire DestroyStation, the record is tombstoned and the reply is *)
(* the success reply; when it fails in the wire AttachSchema, the        *)
(* binding is set and the handler goes on to the schema update and the   *)
(* reply, and a reply sent from there is the success reply.              *)
C27_AuditFailureIsSwallowed ==
    /\ [][\A p \in Slots :
            /\ AuditLogFails(p, "cs_insert")
                  => /\ stations' = Append(stations, task[p].newStation)
                     /\ task'[p].pc = "done"
                     /\ task'[p].replies = <<"">>
            /\ AuditLogFails(p, "rs_tomb")
                  => /\ \E i \in DOMAIN stations :
                           /\ stations[i].name = task[p].stationName.external
                           /\ ~stations[i].is_deleted
                           /\ stations' = [stations EXCEPT ![i] = Tombstone(@)]
                     /\ task'[p].pc = "done"
                     /\ task'[p].replies = <<"">>
            /\ AuditLogFails(p, "us_write")
                  => /\ \E i \in DOMAIN stations :
                           /\ stations[i].name = task[p].stationName.external
                           /\ ~stations[i].is_deleted
                           /\ stations' = [stations EXCEPT
                                 ![i].schema = task[p].newStation.schema]
                     /\ task'[p].pc = "us_publish"
                     /\ task'[p].replies = <<>>
            /\ (task[p].pc = "us_publish" /\ task'[p].replies # <<>>)
                  => /\ task'[p].replies = <<"">>
                     /\ UNCHANGED stations]_vars

C27_Witness ==
    \E p \in Slots :
        /\ task[p].kind = "removeStation"
        /\ task[p].pc = "done"
        /\ task[p].replies = <<"">>
        /\ task[p].tomb # 0
        /\ stations[task[p].tomb].is_deleted
        /\ auditLogs[task[p].stationName.external] = 0
        /\ faults = 1
(* A journey request answered 200. *)
JourneyDone(p) ==
    /\ task[p].kind = "GetPoisonMessageJourney"
    /\ task[p].pc = "done"
    /\ task[p].replies = <<"200">>

(* C28: in the answer of JourneyDetails no two poisoned consumer groups  *)
(* have the same name, no group comes before one with a later poisoning  *)
(* time, every group is one GetPoisonedCgsByMessage returned, and none   *)
(* of the returned entries of its name has a later poisoning time.       *)
C28_PoisonedCgsNewestFirstOnce ==
    \A p \in Slots :
        JourneyDone(p)
            => LET cgs == task[p].dlsMessage.PoisonedCgs
                   poisonedCgs == task[p].poisonedCgs
               IN /\ \A i, j \in DOMAIN cgs :
                        i # j => cgs[i].CgName # cgs[j].CgName
                  /\ \A i, j \in DOMAIN cgs :
                        i < j => cgs[i].PoisoningTime >= cgs[j].PoisoningTime
                  /\ \A i \in DOMAIN cgs :
                        /\ \E k \in DOMAIN poisonedCgs :
                              /\ poisonedCgs[k].CgName = cgs[i].CgName
                              /\ poisonedCgs[k].PoisoningTime = cgs[i].PoisoningTime
                        /\ \A k \in DOMAIN poisonedCgs :
                              poisonedCgs[k].CgName = cgs[i].CgName
                                 => poisonedCgs[k].PoisoningTime <= cgs[i].PoisoningTime

C28_Witness ==
    \E p \in Slots :
        /\ JourneyDone(p)
        /\ task[p].poisonedCgs =
              <<PoisonedCg("g1", 1), PoisonedCg("g2", 1), PoisonedCg("g1", 2)>>
        /\ Len(task[p].dlsMessage.PoisonedCgs) = 2
        /\ task[p].dlsMessage.PoisonedCgs[1].CgName = "g1"
        /\ task[p].dlsMessage.PoisonedCgs[1].PoisoningTime = 2

(* C29: for every member list, the empty list and members both active    *)
(* and deleted included, getCgStatus gives is-active = true exactly when *)
(* some member is active and is-deleted = true exactly when every member *)
(* is deleted.                                                           *)
C29_CgStatusAnyActiveAllDeleted ==
    \A p \in Slots :
        task[p].kind = "getCgStatus"
            => LET members == task[p].cgMembers
               IN /\ task[p].isActive <=> \E i \in DOMAIN members : members[i].IsActive
                  /\ task[p].isDeleted <=> \A i \in DOMAIN members : members[i].IsDeleted

(* C30: the message in the answer of JourneyDetails has no header that  *)
(* begins with $memphis, from whichever bucket it was taken.            *)
C30_NoMemphisHeaders ==
    \A p \in Slots :
        JourneyDone(p)
            => \A header \in DOMAIN task[p].dlsMessage.Headers :
                  ~HasPrefix(header, "$memphis")
(* C31: in GetMessageDetails of a message of a native station, when the *)
(* $memphis_connectionId and $memphis_producedBy headers both have a    *)
(* value, they are the producer of every lookup and of the answer;      *)
(* otherwise, when connectionId and producedBy both have a value, those *)
(* are; otherwise the request is answered with the upgrade-your-SDK     *)
(* error alone and no lookup was made.                                  *)
C31_ProducerHeadersWithFallback ==
    \A p \in Slots :
        LET t == task[p]
            h == t.sm.Header
            New == /\ HeaderValue(h, "$memphis_connectionId") # ""
                   /\ HeaderValue(h, "$memphis_producedBy") # ""
            Legacy == /\ HeaderValue(h, "connectionId") # ""
                      /\ HeaderValue(h, "producedBy") # ""
            Identified(connectionId, producedBy) ==
                /\ t.replies # <<"showable " \o UpgradeSdkErr>>
                /\ t.msg.Producer = [Name |-> ToLower(producedBy),
                                     ConnectionId |-> connectionId]
                /\ \A i \in DOMAIN t.lookups :
                      /\ t.lookups[i].connection_id = connectionId
                      /\ t.lookups[i].name \in {"", ToLower(producedBy)}
        IN (/\ t.kind = "GetMessageDetails"
            /\ t.pc \in {"md_cgs", "md_producer", "done"}
            /\ t.exist
            /\ t.sm.Sequence # 0
            /\ stations[t.station].is_native)
              => /\ New => Identified(h["$memphis_connectionId"],
                                      h["$memphis_producedBy"])
                 /\ (~New /\ Legacy)
                       => Identified(h["connectionId"], h["producedBy"])
                 /\ (~New /\ ~Legacy)
                       => /\ t.pc = "done"
                          /\ t.replies = <<"showable " \o UpgradeSdkErr>>
                          /\ t.lookups = <<>>

C31_Witness ==
    \E p \in Slots :
        /\ task[p].kind = "GetMessageDetails"
        /\ task[p].pc = "done"
        /\ task[p].replies = <<"200">>
        /\ "$memphis_connectionId" \in DOMAIN task[p].sm.Header
        /\ task[p].sm.Header["$memphis_connectionId"] = "c1"
        /\ HeaderValue(task[p].sm.Header, "$memphis_producedBy") = ""
        /\ task[p].msg.Producer = [Name |-> "p2", ConnectionId |-> "c2"]
        /\ Len(task[p].lookups) = 3

(* C32: the write of UpdateDlsConfig adds no station record: it changes *)
(* only the dls_configuration of records that are not deleted, for      *)
(* every spelling of the station name that was accepted.                *)
C32_UpdateDlsConfigWritesLiveRecordOnly ==
    [][\A p \in Slots :
          (task[p].kind = "UpdateDlsConfig" /\ task[p].pc = "ud_write"
              /\ task'[p].pc # "ud_write")
             => /\ Len(stations') = Len(stations)
                /\ \A i \in DOMAIN stations :
                      stations'[i] # stations[i]
                         => /\ ~stations[i].is_deleted
                            /\ stations'[i] =
                                  [stations[i] EXCEPT !.dls_configuration =
                                      task[p].req.dls_configuration]]_vars

(* The fields of a station record that both entry points of CreateStation *)
(* decide from the request.                                               *)
CoreFields(st) ==
    [retention_type |-> st.retention_type, retention_value |-> st.retention_value,
     storage_type |-> st.storage_type, replicas |-> st.replicas,
     idempotency_window |-> st.idempotency_window, schema |-> st.schema,
     dls_configuration |-> st.dls_configuration]

(* C33: on the same request fields and the same initial state the wire  *)
(* and the HTTP CreateStation both fail or both persist a record with   *)
(* equal retention type and value, storage, replicas, idempotency       *)
(* window, schema binding and dls configuration: a finished request of  *)
(* one entry point ended as the validation of the other decides.        *)
C33_SdkAndHttpCreateAgree ==
    \A p \in Slots :
        LET t == task[p]
            ext == t.stationName.external
            other == IF t.kind = "CreateStation"
                     THEN BuildStationDirect(t.req, ext, EmptySchema, TRUE)
                     ELSE BuildStationHttp(t.req, ext, EmptySchema)
        IN (t.kind \in CreateKinds /\ t.pc = "done" /\ faults = 0)
              => IF other.err # NoErr
                 THEN t.wrote = 0 /\ stations = <<>>
                 ELSE /\ t.wrote # 0
                      /\ CoreFields(stations[t.wrote]) = CoreFields(other.station)

(* C36: an HTTP CreateStation without an actor makes no stream and no *)
(* station record, and when its name is valid and free and the store  *)
(* answered, 401 is its only response.                                *)
C36_NoActorIsRejected ==
    \A p \in Slots :
        LET t == task[p]
        IN (t.kind = "CreateStation" /\ ~t.req.actor)
              => /\ t.made = {}
                 /\ t.wrote = 0
                 /\ (/\ t.pc = "done"
                     /\ StationNameFromStr(t.req.station_name).err = NoErr
                     /\ ~t.exist
                     /\ faults = 0)
                       => t.replies = <<"401 Unauthorized">>

(* C37: an AttachSchema that replied success or published its Init      *)
(* update has set the binding of a non-deleted station record: its      *)
(* binding write matched a live record, in every interleaving with      *)
(* DestroyStation.                                                      *)
C37_AttachSuccessMeansBindingWritten ==
    /\ \A p \in Slots :
          LET t == task[p]
          IN (t.kind = "useSchema" /\ "" \in Range(t.replies))
                => t.rid \in Range(applied)
    /\ \A i \in DOMAIN published :
          published[i].update_type = "init"
              => published[i].rid \in Range(applied)

(* C34: once the loop of a fetch has ended, every message a delivery   *)
(* task of the fetch acknowledged on its reply subject is in the       *)
(* collected buffer msgs, also when the loop ended by the timer.       *)
C34_AckedIsCollected ==
    \A p \in Slots :
        LET t == task[p]
        IN (t.kind \in InspectorKinds /\ t.pc \in {"pm_cleanup", "pm_process"})
              => \A d \in t.deliveries :
                    (d.durable = t.durable /\ d.pc \in {"send", "done"})
                       => d.msg \in Range(t.msgs)

(* C35: when the handler has returned, no delivery task its subscription *)
(* callback started is left blocked in its send on responseChan.         *)
C35_NoDeliveryTaskLeftBlocked ==
    \A p \in Slots :
        (task[p].kind \in InspectorKinds /\ task[p].pc = "done")
            => \A d \in task[p].deliveries : d.pc # "send"

(* The steps of CreateStation in which the request is validated. *)
ValidationSteps == {"cs_check", "cs_schema", "hc_check", "hc_schema"}

C39_RemoveStationAllOrNothing ==
    \A p \in Slots :
        LET t == task[p]
        IN (/\ t.kind = "RemoveStation"
            /\ t.rid = 2
            /\ t.pc = "done"
            /\ t.replies # <<"200">>
            /\ stations # <<>>)
              => /\ HasStreams("a")
                 /\ ~stations[1].is_deleted
                 /\ \A i \in DOMAIN producers : ~producers[i].is_deleted

=============================================================================
